---- MODULE Spec2Model ----
(***************************************************************************)
(* Model of the CIB Pop Write text workflow: the HOCR encoder of the       *)
(* worker (convertTextToHocr), the substitution loop of the /hocr handler, *)
(* the browser-side substitution engine (createPseudonymizedText,          *)
(* restoreOriginalEntities and the two fixed simulations) and the browser  *)
(* cascade handleInputChange -> handlePseudonymizedChange ->               *)
(* handleImprovedChange.                                                   *)
(*                                                                         *)
(* A JavaScript string is a sequence of one-character strings.  The one    *)
(* character outside ASCII that the model uses is written "U+00FC" (the    *)
(* letter u with diaeresis): it is a letter, and it is not in \w.          *)
(***************************************************************************)
EXTENDS Naturals, Sequences, FiniteSets, TLC

VARIABLES
    encText,           \* convertTextToHocr: the argument text
    hocrDoc,           \* convertTextToHocr: the line regions returned
    encPc,             \* "off" | "start" | "done" | "extracted" | "answered"
    annotated,         \* /hocr: the ids of the word regions the extraction annotated
    hocrMappings,      \* /hocr: the entityMappings processHocrWithRemoteServer returned
    hocrAnswer,        \* /hocr: the pseudonymizedText of the response
    subText,           \* substitution engine: the original text
    subMappings,       \* substitution engine: the entity mapping, in Object.entries order
    pseudonymized,     \* result of createPseudonymizedText
    restored,          \* result of restoreOriginalEntities
    hocrPseudonymized, \* pseudonymizedText of the /hocr handler
    subPc,             \* "off" | "start" | "pseudonymized" | "restored" | "hocr"
    phLabel,           \* placeholder choice: the entity label
    phCreate,          \* placeholder chosen by createPseudonymizedText
    phRestore,         \* placeholder chosen by restoreOriginalEntities
    inputValue,           \* inputText.value
    pseudonymizedValue,   \* pseudonymizedText.value
    improvedValue,        \* improvedText.value
    finalValue,           \* finalText.value
    storedEntityMappings, \* the global of the same name
    pendingHocr,          \* calls of handleInputChange awaiting processTextWithHocr
    pendingImprove,       \* calls of handlePseudonymizedChange awaiting improveTextWithChatGPT
    inputsDone,           \* number of edits of the input field so far
    lastHocr,             \* history: the last answer handleInputChange got and the
                          \*   value it gave the pseudonymized field
    lastRestore,          \* history: the last run of handleImprovedChange
    cascades,             \* history: runs of handleInputChange on a non-empty input
    finalWrites,          \* history: writes of finalText.value
    title,             \* extractXEntityFromTitle: the argument
    xEntity,           \* extractXEntityFromTitle: the value returned
    hocrFile,          \* HOCR parser: the ocrx_word elements of the file, in document order
    fileText,          \* the text the file was encoded from (Null: the file is not the encoder's)
    entityTextMapping, \* the value getEntitiesTextMappingFromHocr returned
    hasXEntity,        \* the value hasXEntityAnnotationInHocr returned
    fileCalls,         \* which of the two functions have returned
    jsonContent,        \* parseHocrContentForEntities: the argument, a JavaScript value
    decoded,            \* the value returned for jsonContent
    decodedStringified, \* the value returned for JSON.stringify(jsonContent)
    decodeSubstituted,  \* pseudonymizedText of the /hocr handler under the decoded mapping
    decodeCalls,        \* which of the calls have returned
    decodeVisits,       \* the values traverseJson was entered for, each by its path
    request,           \* worker: the POST request, its path and the outcome of request.json()
    env,               \* worker: which bindings of the environment are set
    reqPc,             \* "off" | "received" | "awaitModel" | "awaitExtraction" | "awaitFile" | "done"
    responseStatus,    \* status of the response, 0 while there is none
    encodings,         \* calls of convertTextToHocr made for the request
    extractionCalls,   \* fetches of the extraction endpoint made for the request
    modelCalls,        \* fetches of the chat-completion endpoint made for the request
    externalOutcome,   \* how the external call of the request settled, "none" before
    dbWait,            \* debounce: the wait of debounce(func, wait), in ticks
    dbNow,             \* the time, in ticks
    dbTimeout,         \* the variable timeout of the closure: a timer id, 0 for undefined
    dbTimers,          \* the timers that are set and have not run or been cleared
    dbCalls,           \* history: the calls of the debounced function
    dbRuns             \* history: the runs of func

encVars == <<encText, hocrDoc, encPc, annotated, hocrMappings, hocrAnswer>>

subVars == <<subText, subMappings, pseudonymized, restored, hocrPseudonymized, subPc>>

phVars == <<phLabel, phCreate, phRestore>>

flowVars == <<inputValue, pseudonymizedValue, improvedValue, finalValue,
              storedEntityMappings, pendingHocr, pendingImprove, inputsDone,
              lastHocr, lastRestore, cascades, finalWrites>>

titleVars == <<title, xEntity>>

\* the state of the HOCR parser script and of the worker's request handling
fileVars == <<hocrFile, fileText, entityTextMapping, hasXEntity, fileCalls>>

decodeVars == <<jsonContent, decoded, decodedStringified, decodeSubstituted, decodeCalls,
                decodeVisits>>

requestVars == <<request, env, reqPc, responseStatus, encodings, extractionCalls, modelCalls,
                 externalOutcome>>

debounceVars == <<dbWait, dbNow, dbTimeout, dbTimers, dbCalls, dbRuns>>

workerVars == <<titleVars, fileVars, decodeVars, requestVars, debounceVars>>

vars == <<encVars, subVars, phVars, flowVars, workerVars>>

-----------------------------------------------------------------------------
(* Bounds of the model *)

MaxTextLen == 5

MaxSubTextLen == 3

MaxSpanLen == 2

MaxEntries == 2

MaxLabelParts == 2

MaxInputs == 2

MaxTitleParts == 4

MaxWords == 2

MaxChildren == 2

\* debounce: the longest wait, the number of ticks and the number of calls
MaxWait == 2

MaxTicks == 5

MaxCalls == 3

-----------------------------------------------------------------------------
(* Character classes of the JavaScript regular expressions (no u flag) *)

LowerSeq == << "a","b","c","d","e","f","g","h","i","j","k","l","m",
               "n","o","p","q","r","s","t","u","v","w","x","y","z" >>

UpperSeq == << "A","B","C","D","E","F","G","H","I","J","K","L","M",
               "N","O","P","Q","R","S","T","U","V","W","X","Y","Z" >>

Range(s) == { s[i] : i \in DOMAIN s }

Lower == Range(LowerSeq)

Upper == Range(UpperSeq)

Digit == { "0","1","2","3","4","5","6","7","8","9" }

\* \s
Space == { " ", "\n", "\t" }

\* \w is [A-Za-z0-9_]
WordChar == Lower \cup Upper \cup Digit \cup { "_" }

\* letters of the input that are not ASCII
NonAsciiLetter == { "U+00FC" }

-----------------------------------------------------------------------------
(* String primitives *)

Max(a, b) == IF a >= b THEN a ELSE b

StringsOver(alphabet, n) == UNION { [1..k -> alphabet] : k \in 0..n }

MinOf(S) == CHOOSE x \in S : \A y \in S : x <= y

MaxOf(S) == CHOOSE x \in S : \A y \in S : y <= x

\* String.prototype.trim
Trim(s) ==
    LET inked == { i \in DOMAIN s : s[i] \notin Space }
    IN  IF inked = {} THEN << >> ELSE SubSeq(s, MinOf(inked), MaxOf(inked))

\* the last index of the run of characters of class cls that starts at i
\* (i - 1 when s[i] is not of the class)
RunEnd(s, i, cls) ==
    LET stops == { j \in i..Len(s) : s[j] \notin cls }
    IN  IF stops = {} THEN Max(Len(s), i - 1) ELSE MinOf(stops) - 1

SpaceRunEnd(s, i) == RunEnd(s, i, Space)

\* /\n\s*\n/ at position i: the index of the closing \n of the match, 0 for no match.
\* \s* is greedy and gives characters back until a \n follows.
ParagraphSepEnd(s, i) ==
    IF s[i] /= "\n" THEN 0
    ELSE LET e == SpaceRunEnd(s, i + 1)
             closing == { j \in (i + 1)..e : s[j] = "\n" }
         IN  IF closing = {} THEN 0 ELSE MaxOf(closing)

\* text.split(/\n\s*\n/)
RECURSIVE SplitParagraphsFrom(_, _, _)
SplitParagraphsFrom(s, i, start) ==
    IF i > Len(s) THEN << SubSeq(s, start, Len(s)) >>
    ELSE LET e == ParagraphSepEnd(s, i)
         IN  IF e > 0
             THEN << SubSeq(s, start, i - 1) >> \o SplitParagraphsFrom(s, e + 1, e + 1)
             ELSE SplitParagraphsFrom(s, i + 1, start)

SplitParagraphs(text) == SplitParagraphsFrom(text, 1, 1)

\* paragraph.split('\n')
RECURSIVE SplitLinesFrom(_, _, _)
SplitLinesFrom(s, i, start) ==
    IF i > Len(s) THEN << SubSeq(s, start, Len(s)) >>
    ELSE IF s[i] = "\n"
         THEN << SubSeq(s, start, i - 1) >> \o SplitLinesFrom(s, i + 1, i + 1)
         ELSE SplitLinesFrom(s, i + 1, start)

SplitLines(paragraph) == SplitLinesFrom(paragraph, 1, 1)

\* s.split(/\s+/): the pieces between the maximal runs of whitespace
RECURSIVE SplitWordsFrom(_, _, _)
SplitWordsFrom(s, i, start) ==
    IF i > Len(s) THEN << SubSeq(s, start, Len(s)) >>
    ELSE IF s[i] \in Space
         THEN LET e == SpaceRunEnd(s, i)
              IN  << SubSeq(s, start, i - 1) >> \o SplitWordsFrom(s, e + 1, e + 1)
         ELSE SplitWordsFrom(s, i + 1, start)

SplitWords(s) == SplitWordsFrom(s, 1, 1)

\* word.replace(/[^\w\s]/g, '')
IsKept(c) == c \in WordChar \cup Space

CleanWord(word) == SelectSeq(word, IsKept)

-----------------------------------------------------------------------------
(* convertTextToHocr *)

LineYStart == 100

WordXStart == 100

CharWidth == 10

WordGutter == 10

LineHeight == 30

ParagraphGap == 20

BoxHeight == 50

\* EncodeWords with wordId++ moved out of the if (cleanWord) block
RECURSIVE EncodeWordsCountingDropped(_, _, _, _)
EncodeWordsCountingDropped(words, k, lineY, st) ==
    IF k > Len(words) THEN st
    ELSE LET word == words[k]
             cleanWord == CleanWord(word)
             wordWidth == Len(cleanWord) * CharWidth
         IN  IF word /= << >> /\ cleanWord /= << >>
             THEN EncodeWordsCountingDropped(words, k + 1, lineY,
                      [ words  |-> Append(st.words,
                                     [ id   |-> st.wordId,
                                       text |-> cleanWord,
                                       bbox |-> << st.wordX, lineY,
                                                   st.wordX + wordWidth,
                                                   lineY + BoxHeight >> ]),
                        wordX  |-> st.wordX + wordWidth + WordGutter,
                        wordId |-> st.wordId + 1 ])
             ELSE EncodeWordsCountingDropped(words, k + 1, lineY,
                      [ st EXCEPT !.wordId = st.wordId + 1 ])

\* words.forEach: st = [words, wordX, wordId]
RECURSIVE EncodeWords(_, _, _, _)
EncodeWords(words, k, lineY, st) ==
    IF k > Len(words) THEN st
    ELSE LET word == words[k]
             cleanWord == CleanWord(word)
             wordWidth == Len(cleanWord) * CharWidth
         IN  IF word /= << >> /\ cleanWord /= << >>
             THEN EncodeWords(words, k + 1, lineY,
                      [ words  |-> Append(st.words,
                                     [ id   |-> st.wordId,
                                       text |-> cleanWord,
                                       bbox |-> << st.wordX, lineY,
                                                   st.wordX + wordWidth,
                                                   lineY + BoxHeight >> ]),
                        wordX  |-> st.wordX + wordWidth + WordGutter,
                        wordId |-> st.wordId + 1 ])
             ELSE EncodeWords(words, k + 1, lineY, st)

\* lines.forEach: st = [lines, lineY, wordId]
RECURSIVE EncodeLines(_, _, _)
EncodeLines(lines, l, st) ==
    IF l > Len(lines) THEN st
    ELSE LET line == lines[l]
         IN  IF Trim(line) /= << >>
             THEN LET w == EncodeWords(SplitWords(Trim(line)), 1, st.lineY,
                               [ words |-> << >>, wordX |-> WordXStart,
                                 wordId |-> st.wordId ])
                  IN  EncodeLines(lines, l + 1,
                          [ lines  |-> Append(st.lines,
                                         [ id    |-> l,
                                           bbox  |-> << 0, st.lineY, 1000,
                                                        st.lineY + BoxHeight >>,
                                           words |-> w.words ]),
                            lineY  |-> st.lineY + LineHeight,
                            wordId |-> w.wordId ])
             ELSE EncodeLines(lines, l + 1, st)

\* paragraphs.forEach: st = [lines, lineY, wordId]
RECURSIVE EncodeParagraphs(_, _, _)
EncodeParagraphs(paragraphs, p, st) ==
    IF p > Len(paragraphs) THEN st
    ELSE LET paragraph == paragraphs[p]
         IN  IF Trim(paragraph) /= << >>
             THEN LET r == EncodeLines(SplitLines(paragraph), 1, st)
                  IN  EncodeParagraphs(paragraphs, p + 1,
                          [ r EXCEPT !.lineY = r.lineY + ParagraphGap ])
             ELSE EncodeParagraphs(paragraphs, p + 1, st)

\* the line regions of the page, in emission order
convertTextToHocr(text) ==
    EncodeParagraphs(SplitParagraphs(text), 1,
        [ lines |-> << >>, lineY |-> LineYStart, wordId |-> 1 ]).lines

RECURSIVE Flatten(_)
Flatten(seqs) ==
    IF seqs = << >> THEN << >> ELSE Head(seqs) \o Flatten(Tail(seqs))

\* the word regions of a document, in emission order
WordsOf(doc) == Flatten([ i \in DOMAIN doc |-> doc[i].words ])

-----------------------------------------------------------------------------
(* Strings of the substitution engine *)

PERSON ==
    << "[","P","E","R","S","O","N","]" >>

NUMMER ==
    << "[","N","U","M","M","E","R","]" >>

EMAIL ==
    << "[","E","M","A","I","L","]" >>

ADRESSE ==
    << "[","A","D","R","E","S","S","E","]" >>

TELEFON ==
    << "[","T","E","L","E","F","O","N","]" >>

KwName ==
    << "n","a","m","e" >>

KwNumber ==
    << "n","u","m","b","e","r" >>

KwId ==
    << "i","d" >>

KwEmail ==
    << "e","m","a","i","l" >>

KwAddress ==
    << "a","d","d","r","e","s","s" >>

KwPhone ==
    << "p","h","o","n","e" >>

MaxMustermann ==
    << "M","a","x"," ","M","u","s","t","e","r","m","a","n","n" >>

Nummer12345 ==
    << "1","2","3","4","5" >>

BeispielEmail ==
    << "b","e","i","s","p","i","e","l","@","e","m","a","i","l",".","d","e" >>

AnnotationPrefix ==
    << "[","C","h","a","t","G","P","T"," ","V","e","r","b","e","s","s","e","r",
       "u","n","g",":" >>

\* the value of an absent (undefined) entityMappings argument
Undefined == << << << "undefined" >>, << "undefined" >> >> >>

\* the outcome of a call that throws a TypeError
TypeError == << "TypeError" >>

-----------------------------------------------------------------------------
(* String.prototype.replace with a global regular expression *)

\* String.prototype.toUpperCase / toLowerCase, on the characters of the model
ToUpperChar(c) ==
    IF c \in Lower THEN UpperSeq[CHOOSE i \in DOMAIN LowerSeq : LowerSeq[i] = c] ELSE c

ToLowerChar(c) ==
    IF c \in Upper THEN LowerSeq[CHOOSE i \in DOMAIN UpperSeq : UpperSeq[i] = c] ELSE c

ToUpperCase(s) == [ i \in DOMAIN s |-> ToUpperChar(s[i]) ]

\* String.prototype.includes
Includes(s, sub) ==
    \E i \in 1..(Len(s) - Len(sub) + 1) : SubSeq(s, i, i + Len(sub) - 1) = sub

\* text.replace(regex, replacement) for a global regex that never matches the
\* empty string: lens[i] is the length of the match that starts at i (0: none).
\* Matches are taken left to right and do not overlap; the inserted replacement
\* is not scanned again.
RECURSIVE ReplaceMatches(_, _, _, _)
ReplaceMatches(text, lens, replacement, i) ==
    LET starts == { j \in i..Len(text) : lens[j] > 0 }
    IN  IF starts = {} THEN SubSeq(text, i, Len(text))
        ELSE LET m == MinOf(starts)
             IN  SubSeq(text, i, m - 1) \o replacement
                   \o ReplaceMatches(text, lens, replacement, m + lens[m])

\* a pattern of literal characters (escapeRegExp) at position i; ci: the i flag
LiteralMatchLen(text, i, pattern, ci) ==
    IF /\ pattern /= << >>
       /\ i + Len(pattern) - 1 <= Len(text)
       /\ \A k \in DOMAIN pattern :
             IF ci THEN ToLowerChar(text[i + k - 1]) = ToLowerChar(pattern[k])
                   ELSE text[i + k - 1] = pattern[k]
    THEN Len(pattern) ELSE 0

\* text.replace(new RegExp(escapeRegExp(pattern), 'gi'), replacement)
ReplaceAllIgnoreCase(text, pattern, replacement) ==
    ReplaceMatches(text,
        [ i \in DOMAIN text |-> LiteralMatchLen(text, i, pattern, TRUE) ],
        replacement, 1)

\* text.replace(/literal/g, replacement)
ReplaceAllExact(text, pattern, replacement) ==
    ReplaceMatches(text,
        [ i \in DOMAIN text |-> LiteralMatchLen(text, i, pattern, FALSE) ],
        replacement, 1)

\* a SyntaxError thrown, among strings
SyntaxError == << "SyntaxError" >>

\* new RegExp(key, 'g') compiles: of the pattern characters the model's keys
\* hold ("." and the parentheses) the parentheses must pair up; a key with a
\* "(" that is never closed, or a ")" that was never opened, is a SyntaxError
IsValidPattern(key) ==
    /\ \A n \in DOMAIN key :
          Cardinality({ i \in 1..n : key[i] = ")" })
            <= Cardinality({ i \in 1..n : key[i] = "(" })
    /\ Cardinality({ i \in DOMAIN key : key[i] = ")" })
          = Cardinality({ i \in DOMAIN key : key[i] = "(" })

\* new RegExp(key, 'g') with the key taken as a pattern: "." matches any
\* character but a line terminator, every other character of the model's
\* alphabet matches itself, in its own letter case.
PatternMatchLen(text, i, key) ==
    IF /\ key /= << >>
       /\ i + Len(key) - 1 <= Len(text)
       /\ \A k \in DOMAIN key :
             IF key[k] = "." THEN text[i + k - 1] /= "\n"
                             ELSE text[i + k - 1] = key[k]
    THEN Len(key) ELSE 0

\* text.replace(new RegExp(key, 'g'), value)
ReplaceAllPattern(text, key, value) ==
    ReplaceMatches(text, [ i \in DOMAIN text |-> PatternMatchLen(text, i, key) ], value, 1)

-----------------------------------------------------------------------------
(* The fixed simulations *)

IsWordAt(text, i) == i >= 1 /\ i <= Len(text) /\ text[i] \in WordChar

\* \b between positions i - 1 and i
IsBoundaryBefore(text, i) == IsWordAt(text, i - 1) /= IsWordAt(text, i)

\* [A-Z][a-z]+ at i: the index of its last character with [a-z]+ greedy, 0 for none
CapitalizedEnd(text, i) ==
    IF i <= Len(text) /\ text[i] \in Upper /\ RunEnd(text, i + 1, Lower) >= i + 1
    THEN RunEnd(text, i + 1, Lower) ELSE 0

\* /\b[A-Z][a-z]+\s+[A-Z][a-z]+\b/ at i.  Each quantifier must take its whole
\* run: the character after a shorter [a-z]+ or \s+ is of the same class, which
\* neither \s, [A-Z] nor \b accepts.
PersonMatchLen(text, i) ==
    LET e1 == CapitalizedEnd(text, i)
        s  == IF e1 > 0 THEN RunEnd(text, e1 + 1, Space) ELSE 0
        e2 == IF e1 > 0 /\ s > e1 THEN CapitalizedEnd(text, s + 1) ELSE 0
    IN  IF IsBoundaryBefore(text, i) /\ e2 > 0 /\ IsBoundaryBefore(text, e2 + 1)
        THEN e2 - i + 1 ELSE 0

\* /\b\d{4,}\b/ at i
NumberMatchLen(text, i) ==
    LET e == RunEnd(text, i, Digit)
    IN  IF IsBoundaryBefore(text, i) /\ e - i + 1 >= 4 /\ IsBoundaryBefore(text, e + 1)
        THEN e - i + 1 ELSE 0

EmailHostChar == Lower \cup Upper \cup Digit \cup { ".", "-" }

\* /@[a-zA-Z0-9.-]+\.[a-zA-Z]{2,}/ at i: the host run is greedy and gives
\* characters back to the last "." that two letters or more follow.
EmailMatchLen(text, i) ==
    IF i > Len(text) \/ text[i] /= "@" THEN 0
    ELSE LET e    == RunEnd(text, i + 1, EmailHostChar)
             dots == { d \in (i + 2)..e :
                          /\ text[d] = "."
                          /\ RunEnd(text, d + 1, Lower \cup Upper) >= d + 2 }
         IN  IF dots = {} THEN 0
             ELSE RunEnd(text, MaxOf(dots) + 1, Lower \cup Upper) - i + 1

simulatePseudonymization(text) ==
    LET t1 == ReplaceMatches(text, [ i \in DOMAIN text |-> PersonMatchLen(text, i) ],
                             PERSON, 1)
        t2 == ReplaceMatches(t1, [ i \in DOMAIN t1 |-> NumberMatchLen(t1, i) ],
                             NUMMER, 1)
    IN  ReplaceMatches(t2, [ i \in DOMAIN t2 |-> EmailMatchLen(t2, i) ], EMAIL, 1)

\* the index of the first "]" at or after i, 0 for none
FirstCloseBracket(text, i) ==
    LET closing == { j \in i..Len(text) : text[j] = "]" }
    IN  IF closing = {} THEN 0 ELSE MinOf(closing)

\* /\[ChatGPT Verbesserung:[^\]]+\]/ at i
AnnotationMatchLen(text, i) ==
    LET n == Len(AnnotationPrefix)
        c == FirstCloseBracket(text, i + n)
    IN  IF LiteralMatchLen(text, i, AnnotationPrefix, FALSE) > 0 /\ c > i + n
        THEN c - i + 1 ELSE 0

\* text.replace(/\[ChatGPT Verbesserung:[^\]]+\]/g, '')
StripAnnotations(text) ==
    ReplaceMatches(text, [ i \in DOMAIN text |-> AnnotationMatchLen(text, i) ], << >>, 1)

simulateVibeTexting(text) ==
    StripAnnotations(
        ReplaceAllExact(
            ReplaceAllExact(
                ReplaceAllExact(text, PERSON, MaxMustermann),
                NUMMER, Nummer12345),
            EMAIL, BeispielEmail))

-----------------------------------------------------------------------------
(* createPseudonymizedText and restoreOriginalEntities *)

Bracketed(s) == << "[" >> \o s \o << "]" >>

\* the placeholder chain with the email test ahead of the number/id test
PlaceholderEmailFirst(entityType) ==
    IF Includes(entityType, KwName) THEN PERSON
    ELSE IF Includes(entityType, KwEmail) THEN EMAIL
    ELSE IF Includes(entityType, KwNumber) \/ Includes(entityType, KwId) THEN NUMMER
    ELSE IF Includes(entityType, KwAddress) THEN ADRESSE
    ELSE IF Includes(entityType, KwPhone) THEN TELEFON
    ELSE Bracketed(ToUpperCase(entityType))

\* the placeholder of createPseudonymizedText
PlaceholderForPseudonymize(entityType) ==
    IF Includes(entityType, KwName) THEN PERSON
    ELSE IF Includes(entityType, KwNumber) \/ Includes(entityType, KwId) THEN NUMMER
    ELSE IF Includes(entityType, KwEmail) THEN EMAIL
    ELSE IF Includes(entityType, KwAddress) THEN ADRESSE
    ELSE IF Includes(entityType, KwPhone) THEN TELEFON
    ELSE Bracketed(ToUpperCase(entityType))

\* the placeholder of restoreOriginalEntities
PlaceholderForRestore(entityType) ==
    IF Includes(entityType, KwName) THEN PERSON
    ELSE IF Includes(entityType, KwNumber) \/ Includes(entityType, KwId) THEN NUMMER
    ELSE IF Includes(entityType, KwEmail) THEN EMAIL
    ELSE IF Includes(entityType, KwAddress) THEN ADRESSE
    ELSE IF Includes(entityType, KwPhone) THEN TELEFON
    ELSE Bracketed(ToUpperCase(entityType))

\* entityValue && entityValue.trim()
HasValue(entityValue) == entityValue /= << >> /\ Trim(entityValue) /= << >>

\* the loop over Object.entries(entityMappings), from entry k on
RECURSIVE PseudonymizeEntries(_, _, _)
PseudonymizeEntries(text, entries, k) ==
    IF k > Len(entries) THEN text
    ELSE LET entityType  == entries[k][1]
             entityValue == entries[k][2]
         IN  IF HasValue(entityValue)
             THEN PseudonymizeEntries(
                      ReplaceAllIgnoreCase(text, entityValue,
                                           PlaceholderForPseudonymize(entityType)),
                      entries, k + 1)
             ELSE PseudonymizeEntries(text, entries, k + 1)

\* Object.entries(undefined) throws
createPseudonymizedText(text, entityMappings) ==
    IF entityMappings = Undefined THEN TypeError
    ELSE PseudonymizeEntries(text, entityMappings, 1)

\* placeholderMap[placeholder] = entityValue: a key that is there keeps its place
SetProperty(object, key, value) ==
    IF \E i \in DOMAIN object : object[i][1] = key
    THEN [ i \in DOMAIN object |->
             IF object[i][1] = key THEN << key, value >> ELSE object[i] ]
    ELSE Append(object, << key, value >>)

RECURSIVE BuildPlaceholderMap(_, _, _)
BuildPlaceholderMap(entries, k, placeholderMap) ==
    IF k > Len(entries) THEN placeholderMap
    ELSE LET entityType  == entries[k][1]
             entityValue == entries[k][2]
         IN  IF HasValue(entityValue)
             THEN BuildPlaceholderMap(entries, k + 1,
                      SetProperty(placeholderMap, PlaceholderForRestore(entityType),
                                  entityValue))
             ELSE BuildPlaceholderMap(entries, k + 1, placeholderMap)

RECURSIVE RestoreEntries(_, _, _)
RestoreEntries(text, placeholderMap, k) ==
    IF k > Len(placeholderMap) THEN text
    ELSE RestoreEntries(
             ReplaceAllIgnoreCase(text, placeholderMap[k][1], placeholderMap[k][2]),
             placeholderMap, k + 1)

restoreOriginalEntities(text, entityMappings) ==
    IF entityMappings = Undefined \/ Len(entityMappings) = 0
    THEN simulateVibeTexting(text)
    ELSE StripAnnotations(
             RestoreEntries(text, BuildPlaceholderMap(entityMappings, 1, << >>), 1))

-----------------------------------------------------------------------------
(* The substitution loop of handleHocrEndpoint *)

RECURSIVE HocrSubstituteEntries(_, _, _)
HocrSubstituteEntries(text, entries, k) ==
    IF k > Len(entries) THEN text
    ELSE IF ~IsValidPattern(entries[k][1]) THEN SyntaxError
    ELSE HocrSubstituteEntries(ReplaceAllPattern(text, entries[k][1], entries[k][2]),
                               entries, k + 1)

hocrPseudonymizedText(text, entityMappings) ==
    HocrSubstituteEntries(text, entityMappings, 1)

-----------------------------------------------------------------------------
(* The substitution engine applied to every text and mapping of the bounded sets *)

SubAlphabet == { "K", "k", "D", "." }

SpanAlphabet == { "K", "D", "." }

first_name ==
    << "f","i","r","s","t","_","n","a","m","e" >>

last_name ==
    << "l","a","s","t","_","n","a","m","e" >>

city ==
    << "c","i","t","y" >>

first_name_0 ==
    << "f","i","r","s","t","_","n","a","m","e","_","0" >>

city_0 ==
    << "c","i","t","y","_","0" >>

\* labels, as the keys of a mapping from entity label to entity text
Labels == { first_name, last_name, city }

\* entity ids, as parseHocrContentForEntities forms them
EntityIds == { first_name_0, city_0 }

\* the spans of a mapping: those over SpanAlphabet, and one span that occurs in
\* an entity id and, in another letter case, in a placeholder
Spans == (StringsOver(SpanAlphabet, MaxSpanLen) \ { << >> }) \cup { << "c" >> }

\* objects with at most MaxEntries properties, keys distinct, in insertion order
ObjectsOver(keys, values) ==
    { m \in UNION { [1..n -> keys \X values] : n \in 0..MaxEntries } :
        \A i, j \in DOMAIN m : i /= j => m[i][1] /= m[j][1] }

\* { label: text }
TypeToValueMappings == ObjectsOver(Labels, Spans)

\* { text: entity id }, the shape parseHocrContentForEntities returns
TextToIdMappings == ObjectsOver(Spans, EntityIds)

IsTypeToValue(m) == m /= Undefined /\ \A i \in DOMAIN m : m[i][1] \in Labels

IsTextToId(m) == m /= Undefined /\ \A i \in DOMAIN m : m[i][2] \in EntityIds

EncIdle ==
    /\ encText = << >> /\ hocrDoc = << >> /\ encPc = "off"
    /\ annotated = {} /\ hocrMappings = << >> /\ hocrAnswer = << >>

SubIdle ==
    /\ subText = << >> /\ subMappings = << >> /\ pseudonymized = << >>
    /\ restored = << >> /\ hocrPseudonymized = << >> /\ subPc = "off"

PhIdle == phLabel = << >> /\ phCreate = << >> /\ phRestore = << >>

NoRestore ==
    [ ran |-> FALSE, hocrOk |-> FALSE, hocrMappings |-> << >>, used |-> << >>,
      text |-> << >>, input |-> << >> ]

NoHocr ==
    [ ran |-> FALSE, ok |-> FALSE, mappings |-> << >>, text |-> << >>,
      value |-> << >> ]

TitleIdle == title = << >> /\ xEntity = << >>

FileIdle ==
    /\ hocrFile = << >> /\ fileText = << >> /\ entityTextMapping = << >>
    /\ hasXEntity = FALSE /\ fileCalls = {}

DecodeIdle ==
    /\ jsonContent = << >> /\ decoded = << >> /\ decodedStringified = << >>
    /\ decodeSubstituted = << >> /\ decodeCalls = {} /\ decodeVisits = << >>

RequestIdle ==
    /\ request = << >> /\ env = << >> /\ reqPc = "off" /\ responseStatus = 0
    /\ encodings = 0 /\ extractionCalls = 0 /\ modelCalls = 0
    /\ externalOutcome = "none"

DebounceIdle ==
    /\ dbWait = 0 /\ dbNow = 0 /\ dbTimeout = 0 /\ dbTimers = {}
    /\ dbCalls = << >> /\ dbRuns = << >>

WorkerIdle == TitleIdle /\ FileIdle /\ DecodeIdle /\ RequestIdle /\ DebounceIdle

FlowIdle ==
    /\ inputValue = << >> /\ pseudonymizedValue = << >> /\ improvedValue = << >>
    /\ finalValue = << >> /\ storedEntityMappings = << >>
    /\ pendingHocr = << >> /\ pendingImprove = << >> /\ inputsDone = 0
    /\ lastHocr = NoHocr /\ lastRestore = NoRestore
    /\ cascades = 0 /\ finalWrites = 0

InitSubstitution ==
    /\ subText \in StringsOver(SubAlphabet, MaxSubTextLen)
    /\ subMappings \in TypeToValueMappings \cup TextToIdMappings \cup { Undefined }
    /\ pseudonymized = << >>
    /\ restored = << >>
    /\ hocrPseudonymized = << >>
    /\ subPc = "start"
    /\ EncIdle /\ PhIdle /\ FlowIdle /\ WorkerIdle

\* a call of createPseudonymizedText(text, entityMappings)
CreatePseudonymized ==
    /\ subPc = "start"
    /\ pseudonymized' = createPseudonymizedText(subText, subMappings)
    /\ subPc' = "pseudonymized"
    /\ UNCHANGED <<subText, subMappings, restored, hocrPseudonymized, encVars, phVars, flowVars, workerVars>>

\* a call of restoreOriginalEntities on the pseudonymized text (the
\* intervening transform is the identity)
RestoreOriginal ==
    /\ subPc = "pseudonymized"
    /\ pseudonymized /= TypeError
    /\ restored' = restoreOriginalEntities(pseudonymized, subMappings)
    /\ subPc' = "restored"
    /\ UNCHANGED <<subText, subMappings, pseudonymized, hocrPseudonymized, encVars, phVars, flowVars, workerVars>>

\* the substitution loop of handleHocrEndpoint on the mapping that
\* processHocrWithRemoteServer returned
HocrSubstitute ==
    /\ subPc = "start"
    /\ IsTextToId(subMappings)
    /\ hocrPseudonymized' = hocrPseudonymizedText(subText, subMappings)
    /\ subPc' = "hocr"
    /\ UNCHANGED <<subText, subMappings, pseudonymized, restored, encVars, phVars, flowVars, workerVars>>

NextSubstitution == CreatePseudonymized \/ RestoreOriginal \/ HocrSubstitute

SpecSubstitution == InitSubstitution /\ [][NextSubstitution]_vars

-----------------------------------------------------------------------------
(* The placeholder choice applied to every label of the bounded set *)

LabelParts == { KwName, KwNumber, KwId, KwEmail, KwAddress, KwPhone, city, << "_" >> }

RECURSIVE LabelsOfParts(_)
LabelsOfParts(n) ==
    IF n = 0 THEN { << >> }
    ELSE LabelsOfParts(n - 1)
           \cup { l \o p : l \in LabelsOfParts(n - 1), p \in LabelParts }

InitPlaceholder ==
    /\ phLabel \in LabelsOfParts(MaxLabelParts)
    /\ phCreate = << >>
    /\ phRestore = << >>
    /\ EncIdle /\ SubIdle /\ FlowIdle /\ WorkerIdle

\* createPseudonymizedText reaches an entry with this label
ChoosePseudonymizePlaceholder ==
    /\ phCreate = << >>
    /\ phCreate' = PlaceholderForPseudonymize(phLabel)
    /\ UNCHANGED <<phLabel, phRestore, encVars, subVars, flowVars, workerVars>>

\* restoreOriginalEntities reaches an entry with this label
ChooseRestorePlaceholder ==
    /\ phRestore = << >>
    /\ phRestore' = PlaceholderForRestore(phLabel)
    /\ UNCHANGED <<phLabel, phCreate, encVars, subVars, flowVars, workerVars>>

NextPlaceholder == ChoosePseudonymizePlaceholder \/ ChooseRestorePlaceholder

SpecPlaceholder == InitPlaceholder /\ [][NextPlaceholder]_vars

-----------------------------------------------------------------------------
(* The browser cascade *)

SimulationAnnotation ==
    << "\n","\n","[","C","h","a","t","G","P","T"," ","V","e","r","b","e","s",
       "s","e","r","u","n","g",":"," ","T","e","x","t"," ","w","u","r","d",
       "e"," ","f","U+00FC","r"," ","b","e","s","s","e","r","e"," ","L","e",
       "s","b","a","r","k","e","i","t"," ","o","p","t","i","m","i","e","r",
       "t"," ","(","S","i","m","u","l","a","t","i","o","n"," ","-"," ","A",
       "P","I"," ","n","i","c","h","t"," ","v","e","r","f","U+00FC","g","b",
       "a","r",")","]" >>

PseudonymizingMessage ==
    << "P","s","e","u","d","o","n","y","m","i","s","i","e","r","u","n","g"," ",
       "l","U+00E4","u","f","t",".",".","." >>

ImprovingMessage ==
    << "C","h","a","t","G","P","T"," ","v","e","r","b","e","s","s","e","r","t",
       " ","d","e","n"," ","T","e","x","t",".",".","." >>

simulateTextImprovement(text) == text \o SimulationAnnotation

\* what the user may type into the input field
FlowInputs ==
    { << >>,
      << " " >>,
      << "K" >>,
      << "k", " ", "K", "D" >>,
      << "1", "2", "3", "4" >>,
      << "A", "b", " ", "C", "d" >> }

\* the mappings the /hocr endpoint may answer with
FlowMappings ==
    { << >>,
      << << << "K" >>, first_name_0 >> >>,
      << << << "K" >>, first_name_0 >>, << << "D" >>, city_0 >> >> }

\* a reply of the language model that is not the text it was given
RewrittenReply == << "O", "K" >>

\* the improved text of the /improve endpoint for a text: the text itself (the
\* language model changed nothing) or a rewrite
ImprovedReply(text, rewritten) == IF rewritten THEN RewrittenReply ELSE text

InitWorkflow ==
    /\ inputValue = << >>
    /\ pseudonymizedValue = << >>
    /\ improvedValue = << >>
    /\ finalValue = << >>
    /\ storedEntityMappings = << >>
    /\ pendingHocr = << >>
    /\ pendingImprove = << >>
    /\ inputsDone = 0
    /\ lastHocr = NoHocr
    /\ lastRestore = NoRestore
    /\ cascades = 0
    /\ finalWrites = 0
    /\ EncIdle /\ SubIdle /\ PhIdle /\ WorkerIdle

RemoveAt(s, i) == SubSeq(s, 1, i - 1) \o SubSeq(s, i + 1, Len(s))

\* The user edits the input field and the debounced handleInputChange runs up
\* to its await of processTextWithHocr.
InputChange(value) ==
    /\ inputsDone < MaxInputs
    /\ inputsDone' = inputsDone + 1
    /\ inputValue' = value
    /\ LET text == Trim(value)
       IN  IF text /= << >>
           THEN /\ pseudonymizedValue' = PseudonymizingMessage
                /\ pendingHocr' = Append(pendingHocr, [ text |-> text ])
                /\ cascades' = cascades + 1
           ELSE UNCHANGED <<pseudonymizedValue, pendingHocr, cascades>>
    /\ UNCHANGED <<improvedValue, finalValue, storedEntityMappings, pendingImprove,
                   lastHocr, lastRestore, finalWrites, encVars, subVars, phVars, workerVars>>

\* StartImprove that is not reached from the catch block of handleInputChange
StartImproveAfterSuccess(value, hocrOk, mappings, input) ==
    LET text == Trim(value)
    IN  IF text /= << >> /\ hocrOk
        THEN /\ improvedValue' = ImprovingMessage
             /\ pendingImprove' = Append(pendingImprove,
                                    [ text |-> text, hocrOk |-> hocrOk,
                                      hocrMappings |-> mappings, input |-> input ])
        ELSE UNCHANGED <<improvedValue, pendingImprove>>

\* handlePseudonymizedChange up to its await of improveTextWithChatGPT, called
\* at the end of handleInputChange with the pseudonymized field holding value;
\* input is the text the call of handleInputChange read (history)
StartImprove(value, hocrOk, mappings, input) ==
    LET text == Trim(value)
    IN  IF text /= << >>
        THEN /\ improvedValue' = ImprovingMessage
             /\ pendingImprove' = Append(pendingImprove,
                                    [ text |-> text, hocrOk |-> hocrOk,
                                      hocrMappings |-> mappings, input |-> input ])
        ELSE UNCHANGED <<improvedValue, pendingImprove>>

\* processTextWithHocr resolves with the worker's answer for the text, built
\* from the mapping the extraction gave; handleInputChange runs to its end.
HocrSucceeds(i, mappings) ==
    /\ i \in DOMAIN pendingHocr
    /\ LET text == pendingHocr[i].text
           hocrResult == [ entityMappings    |-> mappings,
                           pseudonymizedText |-> hocrPseudonymizedText(text, mappings) ]
           value == IF hocrResult.pseudonymizedText /= << >>
                    THEN hocrResult.pseudonymizedText ELSE text
       IN  /\ pseudonymizedValue' = value
           /\ lastHocr' = [ ran |-> TRUE, ok |-> TRUE, mappings |-> mappings,
                            text |-> text, value |-> value ]
           /\ StartImprove(value, TRUE, mappings, text)
    /\ pendingHocr' = RemoveAt(pendingHocr, i)
    /\ UNCHANGED <<inputValue, finalValue, storedEntityMappings, inputsDone,
                   lastRestore, cascades, finalWrites, encVars, subVars, phVars, workerVars>>

\* processTextWithHocr rejects (network error, error status, or an answer
\* without success and entityMappings); the catch block runs, then the end
\* of handleInputChange.
HocrFails(i) ==
    /\ i \in DOMAIN pendingHocr
    /\ LET text == pendingHocr[i].text
           value == simulatePseudonymization(text)
       IN  /\ pseudonymizedValue' = value
           /\ storedEntityMappings' = << >>
           /\ lastHocr' = [ ran |-> TRUE, ok |-> FALSE, mappings |-> << >>,
                            text |-> text, value |-> value ]
           /\ StartImprove(value, FALSE, << >>, text)
    /\ pendingHocr' = RemoveAt(pendingHocr, i)
    /\ UNCHANGED <<inputValue, finalValue, inputsDone, lastRestore, cascades,
                   finalWrites, encVars, subVars, phVars, workerVars>>

\* handleImprovedChange, called at the end of handlePseudonymizedChange with the
\* improved field holding value
ImprovedChange(value, task) ==
    LET text == Trim(value)
    IN  IF text /= << >>
        THEN /\ finalValue' = restoreOriginalEntities(text, storedEntityMappings)
             /\ lastRestore' = [ ran |-> TRUE, hocrOk |-> task.hocrOk,
                                 hocrMappings |-> task.hocrMappings,
                                 used |-> storedEntityMappings, text |-> text,
                                 input |-> task.input ]
             /\ finalWrites' = finalWrites + 1
        ELSE UNCHANGED <<finalValue, lastRestore, finalWrites>>

\* improveTextWithChatGPT resolves with the improved text of the worker
ImproveSucceeds(j, rewritten) ==
    /\ j \in DOMAIN pendingImprove
    /\ LET improved == ImprovedReply(pendingImprove[j].text, rewritten)
       IN  /\ improvedValue' = improved
           /\ ImprovedChange(improved, pendingImprove[j])
    /\ pendingImprove' = RemoveAt(pendingImprove, j)
    /\ UNCHANGED <<inputValue, pseudonymizedValue, storedEntityMappings, pendingHocr,
                   inputsDone, lastHocr, cascades, encVars, subVars, phVars, workerVars>>

\* the call of /improve fails: improveTextWithChatGPT catches the error and
\* resolves with simulateTextImprovement(text)
ImproveFails(j) ==
    /\ j \in DOMAIN pendingImprove
    /\ LET improved == simulateTextImprovement(pendingImprove[j].text)
       IN  /\ improvedValue' = improved
           /\ ImprovedChange(improved, pendingImprove[j])
    /\ pendingImprove' = RemoveAt(pendingImprove, j)
    /\ UNCHANGED <<inputValue, pseudonymizedValue, storedEntityMappings, pendingHocr,
                   inputsDone, lastHocr, cascades, encVars, subVars, phVars, workerVars>>

NextWorkflow ==
    \/ \E value \in FlowInputs : InputChange(value)
    \/ \E i \in 1..MaxInputs, mappings \in FlowMappings : HocrSucceeds(i, mappings)
    \/ \E i \in 1..MaxInputs : HocrFails(i)
    \/ \E j \in 1..MaxInputs, rewritten \in BOOLEAN : ImproveSucceeds(j, rewritten)
    \/ \E j \in 1..MaxInputs : ImproveFails(j)

SpecWorkflow == InitWorkflow /\ [][NextWorkflow]_vars

\* an awaited call of processTextWithHocr settles and leaves the queue: under
\* NextWorkflow these are the steps of HocrSucceeds and HocrFails
HocrSettles ==
    \E i \in DOMAIN pendingHocr : pendingHocr' = RemoveAt(pendingHocr, i)

\* an awaited call of improveTextWithChatGPT settles and leaves the queue:
\* under NextWorkflow these are the steps of ImproveSucceeds and ImproveFails
ImproveSettles ==
    \E j \in DOMAIN pendingImprove : pendingImprove' = RemoveAt(pendingImprove, j)

\* the cascade when every fetch settles in the end
SpecWorkflowFair ==
    SpecWorkflow /\ WF_pendingHocr(HocrSettles) /\ WF_pendingImprove(ImproveSettles)

-----------------------------------------------------------------------------
(* The encoder applied to every text of the bounded set *)

EncAlphabet == { "a", "b", "U+00FC", ".", " ", "\n" }

InitEncoder ==
    /\ encText \in StringsOver(EncAlphabet, MaxTextLen)
    /\ hocrDoc = << >>
    /\ encPc = "start"
    /\ annotated = {}
    /\ hocrMappings = << >>
    /\ hocrAnswer = << >>
    /\ SubIdle /\ PhIdle /\ FlowIdle /\ WorkerIdle

Encode ==
    /\ encPc = "start"
    /\ hocrDoc' = convertTextToHocr(encText)
    /\ encPc' = "done"
    /\ UNCHANGED <<encText, annotated, hocrMappings, hocrAnswer,
                   subVars, phVars, flowVars, workerVars>>

NextEncoder == Encode

SpecEncoder == InitEncoder /\ [][NextEncoder]_vars

-----------------------------------------------------------------------------
(* The HOCR parser script: extractXEntityFromTitle *)

XEntityMarker ==
    << "x","_","e","n","t","i","t","y" >>

\* the value null, among strings
Null == << "null" >>

\* no value has been returned yet
NotReturned == << "pending" >>

\* s.startsWith(prefix)
StartsWith(s, prefix) ==
    Len(s) >= Len(prefix) /\ SubSeq(s, 1, Len(prefix)) = prefix

\* s.replace(pattern, '') with a string pattern: the first occurrence goes
RemoveFirst(s, pattern) ==
    LET at == { i \in DOMAIN s :
                  /\ i + Len(pattern) <= Len(s) + 1
                  /\ SubSeq(s, i, i + Len(pattern) - 1) = pattern }
    IN  IF at = {} THEN s
        ELSE SubSeq(s, 1, MinOf(at) - 1) \o SubSeq(s, MinOf(at) + Len(pattern), Len(s))

\* title.split(';')
RECURSIVE SplitSegmentsFrom(_, _, _)
SplitSegmentsFrom(s, i, start) ==
    IF i > Len(s) THEN << SubSeq(s, start, Len(s)) >>
    ELSE IF s[i] = ";"
         THEN << SubSeq(s, start, i - 1) >> \o SplitSegmentsFrom(s, i + 1, i + 1)
         ELSE SplitSegmentsFrom(s, i + 1, start)

SplitSegments(s) == SplitSegmentsFrom(s, 1, 1)

\* Array.prototype.join
RECURSIVE ArrayJoin(_, _)
ArrayJoin(parts, sep) ==
    IF parts = << >> THEN << >>
    ELSE IF Len(parts) = 1 THEN parts[1]
    ELSE parts[1] \o sep \o ArrayJoin(Tail(parts), sep)

\* ExtractFromParts without the slice(0, -1): the last token stays in the label
RECURSIVE ExtractFromPartsKeepingLast(_, _)
ExtractFromPartsKeepingLast(parts, k) ==
    IF k > Len(parts) THEN Null
    ELSE LET trimmedPart == Trim(parts[k])
         IN  IF StartsWith(trimmedPart, XEntityMarker)
             THEN LET entityPart == Trim(RemoveFirst(trimmedPart, XEntityMarker))
                      tokens == SplitWords(entityPart)
                  IN  IF Len(tokens) > 0
                      THEN ArrayJoin(tokens, << " " >>)
                      ELSE ExtractFromPartsKeepingLast(parts, k + 1)
             ELSE ExtractFromPartsKeepingLast(parts, k + 1)

\* for (const part of parts), from part k on
RECURSIVE ExtractFromParts(_, _)
ExtractFromParts(parts, k) ==
    IF k > Len(parts) THEN Null
    ELSE LET trimmedPart == Trim(parts[k])
         IN  IF StartsWith(trimmedPart, XEntityMarker)
             THEN LET entityPart == Trim(RemoveFirst(trimmedPart, XEntityMarker))
                      tokens == SplitWords(entityPart)
                  IN  IF Len(tokens) > 0
                      THEN IF Len(tokens) = 1 THEN tokens[1]
                           ELSE ArrayJoin(SubSeq(tokens, 1, Len(tokens) - 1), << " " >>)
                      ELSE ExtractFromParts(parts, k + 1)
             ELSE ExtractFromParts(parts, k + 1)

extractXEntityFromTitle(t) ==
    IF ~Includes(t, XEntityMarker) THEN Null
    ELSE ExtractFromParts(SplitSegments(t), 1)

\* the pieces the titles of the bounded set are made of
BboxSegment ==
    << "b","b","o","x"," ","1" >>

TitleParts ==
    { XEntityMarker, << " " >> \o city, << " ", "0" >>, << ";" >>, << " " >>, BboxSegment }

RECURSIVE TitlesOfParts(_)
TitlesOfParts(n) ==
    IF n = 0 THEN { << >> }
    ELSE TitlesOfParts(n - 1)
           \cup { t \o p : t \in TitlesOfParts(n - 1), p \in TitleParts }

InitTitle ==
    /\ title \in TitlesOfParts(MaxTitleParts)
    /\ xEntity = NotReturned
    /\ EncIdle /\ SubIdle /\ PhIdle /\ FlowIdle /\ FileIdle /\ DecodeIdle /\ RequestIdle /\ DebounceIdle

\* a call of extractXEntityFromTitle(title)
ExtractXEntity ==
    /\ xEntity = NotReturned
    /\ xEntity' = extractXEntityFromTitle(title)
    /\ UNCHANGED <<title, encVars, subVars, phVars, flowVars, fileVars, decodeVars, requestVars, debounceVars>>

NextTitle == ExtractXEntity

SpecTitle == InitTitle /\ [][NextTitle]_vars

-----------------------------------------------------------------------------
(* The HOCR parser script: getEntitiesTextMappingFromHocr and                *)
(* hasXEntityAnnotationInHocr.  A file is the sequence of its ocrx_word      *)
(* elements, each with its title attribute (NoAttribute when it has none)    *)
(* and its text content; the content of the file is its serialization.       *)

\* $element.attr('title') of an element without the attribute
NoAttribute == << "undefined" >>

\* a TypeError thrown, among mappings
MappingTypeError == << << << "TypeError" >>, << "TypeError" >> >> >>

\* the properties {} inherits from Object.prototype
InheritedProperties ==
    { << "c","o","n","s","t","r","u","c","t","o","r" >>,
      << "_","_","p","r","o","t","o","_","_" >>,
      << "t","o","S","t","r","i","n","g" >>,
      << "v","a","l","u","e","O","f" >>,
      << "h","a","s","O","w","n","P","r","o","p","e","r","t","y" >> }

HasOwnProperty(obj, key) == \E i \in DOMAIN obj : obj[i][1] = key

\* mapping[xEntity].push(text) on an own property
PushTo(obj, key, text) ==
    [ i \in DOMAIN obj |->
        IF obj[i][1] = key THEN << key, Append(obj[i][2], text) >> ELSE obj[i] ]

\* wordElements.each: mapping holds, per label, the list of texts so far
RECURSIVE CollectWords(_, _, _)
CollectWords(words, k, mapping) ==
    IF k > Len(words) THEN mapping
    ELSE LET t == IF words[k].title = NoAttribute THEN << >> ELSE words[k].title
             text == Trim(words[k].text)
             label == extractXEntityFromTitle(t)
         IN  IF label /= Null /\ label /= << >>
             THEN IF HasOwnProperty(mapping, label)
                  THEN CollectWords(words, k + 1, PushTo(mapping, label, text))
                  ELSE IF label \in InheritedProperties
                       \* !mapping[xEntity] is false for the inherited value,
                       \* which has no push
                       THEN MappingTypeError
                       ELSE CollectWords(words, k + 1,
                                Append(mapping, << label, << text >> >>))
             ELSE CollectWords(words, k + 1, mapping)

getEntitiesTextMappingFromHocr(words) ==
    LET mapping == CollectWords(words, 1, << >>)
    IN  IF mapping = MappingTypeError THEN MappingTypeError
        ELSE [ i \in DOMAIN mapping |->
                 << mapping[i][1], ArrayJoin(mapping[i][2], << " " >>) >> ]

DigitSeq == << "0","1","2","3","4","5","6","7","8","9" >>

\* `${n}`
RECURSIVE NatToString(_)
NatToString(n) ==
    IF n < 10 THEN << DigitSeq[n + 1] >>
    ELSE NatToString(n \div 10) \o << DigitSeq[(n % 10) + 1] >>

WordOpenTag ==
    << "<","s","p","a","n"," ","c","l","a","s","s","=","\"","o","c","r","x","_",
       "w","o","r","d","\"" >>

TitleAttribute ==
    << " ","t","i","t","l","e","=","\"" >>

IdAttribute ==
    << " ","i","d","=","\"","w","o","r","d","_" >>

WordCloseTag ==
    << "<","/","s","p","a","n",">","\n" >>

\* the content of the file: its elements one after the other, from element k on
RECURSIVE HocrContentFrom(_, _)
HocrContentFrom(words, k) ==
    IF k > Len(words) THEN << >>
    ELSE WordOpenTag
           \o (IF words[k].title = NoAttribute THEN << >>
               ELSE TitleAttribute \o words[k].title \o << "\"" >>)
           \o IdAttribute \o NatToString(k) \o << "\"", ">" >>
           \o words[k].text \o WordCloseTag
           \o HocrContentFrom(words, k + 1)

HocrContent(words) == HocrContentFrom(words, 1)

\* content.includes('x_entity')
hasXEntityAnnotationInHocr(words) == Includes(HocrContent(words), XEntityMarker)

\* the title convertTextToHocr writes for a box
BboxTitle(bbox) ==
    << "b","b","o","x" >> \o << " " >> \o NatToString(bbox[1])
       \o << " " >> \o NatToString(bbox[2]) \o << " " >> \o NatToString(bbox[3])
       \o << " " >> \o NatToString(bbox[4])

\* the ocrx_word elements of a document of convertTextToHocr, line after line
RECURSIVE WordElementsOf(_)
WordElementsOf(doc) ==
    IF doc = << >> THEN << >>
    ELSE [ i \in DOMAIN Head(doc).words |->
             [ title |-> BboxTitle(Head(doc).words[i].bbox),
               text  |-> Head(doc).words[i].text ] ]
           \o WordElementsOf(Tail(doc))

EncodedFile(text) == WordElementsOf(convertTextToHocr(text))

FileTitles ==
    { NoAttribute,
      BboxSegment,
      XEntityMarker,
      XEntityMarker \o << " " >> \o city \o << " ", "0" >>,
      BboxSegment \o << ";", " " >> \o XEntityMarker \o << " " >> \o first_name \o << " ", "0" >>,
      XEntityMarker \o << " ","c","o","n","s","t","r","u","c","t","o","r"," ","0" >> }

FileTexts == { << >>, << "K" >>, << " ", "D", " " >>, XEntityMarker }

EncodedTexts ==
    { << >>, << "K" >>, << "K", " ", "D", ".", "\n", "k" >>, XEntityMarker }

FilesOver(n) ==
    UNION { [1..k -> [ title : FileTitles, text : FileTexts ]] : k \in 0..n }

InitFile ==
    /\ \/ hocrFile \in FilesOver(MaxWords) /\ fileText = Null
       \/ \E text \in EncodedTexts : hocrFile = EncodedFile(text) /\ fileText = text
    /\ entityTextMapping = << >>
    /\ hasXEntity = FALSE
    /\ fileCalls = {}
    /\ EncIdle /\ SubIdle /\ PhIdle /\ FlowIdle /\ TitleIdle /\ DecodeIdle /\ RequestIdle /\ DebounceIdle

\* a call of getEntitiesTextMappingFromHocr on the file
GetEntitiesTextMapping ==
    /\ "mapping" \notin fileCalls
    /\ entityTextMapping' = getEntitiesTextMappingFromHocr(hocrFile)
    /\ fileCalls' = fileCalls \cup { "mapping" }
    /\ UNCHANGED <<hocrFile, fileText, hasXEntity, encVars, subVars, phVars, flowVars, titleVars, decodeVars, requestVars, debounceVars>>

\* a call of hasXEntityAnnotationInHocr on the file
HasXEntityAnnotation ==
    /\ "has" \notin fileCalls
    /\ hasXEntity' = hasXEntityAnnotationInHocr(hocrFile)
    /\ fileCalls' = fileCalls \cup { "has" }
    /\ UNCHANGED <<hocrFile, fileText, entityTextMapping, encVars, subVars, phVars, flowVars, titleVars, decodeVars, requestVars, debounceVars>>

NextFile == GetEntitiesTextMapping \/ HasXEntityAnnotation

SpecFile == InitFile /\ [][NextFile]_vars

-----------------------------------------------------------------------------
(* JavaScript values as JSON holds them.  An object is its own properties in  *)
(* order, an array its items under the keys "0", "1", ...                     *)

JUndefined == [ kind |-> "undefined", str |-> << >>, num |-> 0, members |-> << >> ]

JNull == [ kind |-> "null", str |-> << >>, num |-> 0, members |-> << >> ]

JBoolean(b) ==
    [ kind |-> "boolean", str |-> << >>, num |-> IF b THEN 1 ELSE 0, members |-> << >> ]

JNumber(n) == [ kind |-> "number", str |-> << >>, num |-> n, members |-> << >> ]

JString(s) == [ kind |-> "string", str |-> s, num |-> 0, members |-> << >> ]

JObject(members) == [ kind |-> "object", str |-> << >>, num |-> 0, members |-> members ]

JArray(items) ==
    [ kind |-> "array", str |-> << >>, num |-> 0,
      members |-> [ i \in DOMAIN items |-> << NatToString(i - 1), items[i] >> ] ]

\* !v is false
Truthy(v) ==
    CASE v.kind \in { "undefined", "null" } -> FALSE
      [] v.kind \in { "boolean", "number" } -> v.num /= 0
      [] v.kind = "string" -> v.str /= << >>
      [] OTHER -> TRUE

\* typeof v === 'object'
IsObjectType(v) == v.kind \in { "object", "array", "null" }

HasMember(v, key) == \E i \in DOMAIN v.members : v.members[i][1] = key

\* v[key] for the keys the code reads (none of them is inherited)
Get(v, key) ==
    IF HasMember(v, key)
    THEN v.members[CHOOSE i \in DOMAIN v.members : v.members[i][1] = key][2]
    ELSE JUndefined

-----------------------------------------------------------------------------
(* JSON.stringify and JSON.parse, character by character *)

Quote == "\""

Backslash == "\\"

EscapeChar(c) ==
    CASE c = Quote -> << Backslash, Quote >>
      [] c = Backslash -> << Backslash, Backslash >>
      [] c = "\n" -> << Backslash, "n" >>
      [] c = "\t" -> << Backslash, "t" >>
      [] OTHER -> << c >>

\* the characters of s, each one escaped; the string is halved at each step
RECURSIVE EscapeChars(_)
EscapeChars(s) ==
    IF s = << >> THEN << >>
    ELSE IF Len(s) = 1 THEN EscapeChar(s[1])
    ELSE LET half == Len(s) \div 2
         IN  EscapeChars(SubSeq(s, 1, half)) \o EscapeChars(SubSeq(s, half + 1, Len(s)))

QuoteString(s) == << Quote >> \o EscapeChars(s) \o << Quote >>

\* JSON.stringify(v) for a value that holds no undefined
RECURSIVE JSONStringify(_)
JSONStringify(v) ==
    CASE v.kind = "string" -> QuoteString(v.str)
      [] v.kind = "number" -> NatToString(v.num)
      [] v.kind = "boolean" -> IF v.num = 1 THEN << "t","r","u","e" >>
                                            ELSE << "f","a","l","s","e" >>
      [] v.kind = "object" ->
            << "{" >>
              \o ArrayJoin([ i \in DOMAIN v.members |->
                               QuoteString(v.members[i][1]) \o << ":" >>
                                 \o JSONStringify(v.members[i][2]) ],
                           << "," >>)
              \o << "}" >>
      [] v.kind = "array" ->
            << "[" >>
              \o ArrayJoin([ i \in DOMAIN v.members |-> JSONStringify(v.members[i][2]) ],
                           << "," >>)
              \o << "]" >>
      [] OTHER -> << "n","u","l","l" >>

ParseFailure == [ ok |-> FALSE, value |-> JUndefined, next |-> 0 ]

Parsed(value, next) == [ ok |-> TRUE, value |-> value, next |-> next ]

\* the first position at or after i that holds no whitespace
SkipSpace(s, i) ==
    IF i > Len(s) \/ s[i] \notin Space THEN i ELSE SpaceRunEnd(s, i) + 1

\* the number of backslashes that end right before position k, from lo on
BackslashesBefore(s, k, lo) ==
    IF k <= lo \/ s[k - 1] /= Backslash THEN 0
    ELSE LET others == { m \in lo..(k - 1) : s[m] /= Backslash }
         IN  IF others = {} THEN k - lo ELSE (k - 1) - MaxOf(others)

\* the closing quote of the string literal that opens at j, 0 for none
StringLiteralEnd(s, j) ==
    LET closing == { k \in (j + 1)..Len(s) :
                       s[k] = Quote /\ BackslashesBefore(s, k, j + 1) % 2 = 0 }
    IN  IF closing = {} THEN 0 ELSE MinOf(closing)

\* the backslash at position m of a literal escapes the character after it
IsEscaping(raw, m) == raw[m] = Backslash /\ BackslashesBefore(raw, m, 1) % 2 = 0

EscapedChars == { Quote, Backslash, "/", "n", "t" }

\* the inside of a string literal: no control character, and after each
\* escaping backslash a character that can be escaped
IsValidLiteral(raw) ==
    \A m \in DOMAIN raw :
        /\ raw[m] \notin { "\n", "\t" }
        /\ IsEscaping(raw, m) => (m < Len(raw) /\ raw[m + 1] \in EscapedChars)

UnescapeChar(c) ==
    CASE c = "n" -> "\n"
      [] c = "t" -> "\t"
      [] OTHER -> c

\* the characters of a valid literal: each escaping backslash is dropped and
\* the character after it is the one it stands for
Unescape(raw) ==
    LET IsPlain(m) == ~IsEscaping(raw, m)
        kept == SelectSeq([ m \in DOMAIN raw |-> m ], IsPlain)
    IN  [ k \in DOMAIN kept |->
            IF kept[k] > 1 /\ IsEscaping(raw, kept[k] - 1)
            THEN UnescapeChar(raw[kept[k]])
            ELSE raw[kept[k]] ]

\* the string literal that opens at j
ParseStringLiteral(s, j) ==
    LET e == StringLiteralEnd(s, j)
        raw == SubSeq(s, j + 1, e - 1)
    IN  IF e = 0 \/ ~IsValidLiteral(raw) THEN ParseFailure
        ELSE Parsed(JString(Unescape(raw)), e + 1)

DigitValue(c) == CHOOSE d \in 0..9 : DigitSeq[d + 1] = c

RECURSIVE StringToNat(_)
StringToNat(digits) ==
    IF digits = << >> THEN 0
    ELSE StringToNat(SubSeq(digits, 1, Len(digits) - 1)) * 10
           + DigitValue(digits[Len(digits)])

\* the number that starts at j: 0, or a digit from 1 to 9 and the digits after it
ParseNumber(s, j) ==
    LET e == IF s[j] = "0" THEN j ELSE RunEnd(s, j, Digit)
    IN  Parsed(JNumber(StringToNat(SubSeq(s, j, e))), e + 1)

StartsAt(s, j, word) ==
    j + Len(word) <= Len(s) + 1 /\ SubSeq(s, j, j + Len(word) - 1) = word

ParseLiteral(s, j) ==
    IF StartsAt(s, j, << "n","u","l","l" >>) THEN Parsed(JNull, j + 4)
    ELSE IF StartsAt(s, j, << "t","r","u","e" >>) THEN Parsed(JBoolean(TRUE), j + 4)
    ELSE IF StartsAt(s, j, << "f","a","l","s","e" >>) THEN Parsed(JBoolean(FALSE), j + 5)
    ELSE ParseFailure

\* ParseItems that keeps the first item of an array only
RECURSIVE ParseValue(_, _)
RECURSIVE ParseItemsFirstOnly(_, _, _)
ParseItemsFirstOnly(s, i, items) ==
    LET v == ParseValue(s, i)
        d == SkipSpace(s, v.next)
    IN  IF ~v.ok \/ d > Len(s) THEN ParseFailure
        ELSE IF s[d] = "]"
             THEN Parsed(JArray(IF items = << >> THEN << v.value >> ELSE items), d + 1)
        ELSE IF s[d] = ","
             THEN ParseItemsFirstOnly(s, d + 1,
                      IF items = << >> THEN << v.value >> ELSE items)
        ELSE ParseFailure

\* the items of an array from position i on, after the items read so far
RECURSIVE ParseItems(_, _, _)
ParseItems(s, i, items) ==
    LET v == ParseValue(s, i)
        d == SkipSpace(s, v.next)
    IN  IF ~v.ok \/ d > Len(s) THEN ParseFailure
        ELSE IF s[d] = "]" THEN Parsed(JArray(Append(items, v.value)), d + 1)
        ELSE IF s[d] = "," THEN ParseItems(s, d + 1, Append(items, v.value))
        ELSE ParseFailure

\* the members of an object from the key at position i on; a repeated key
\* keeps its place and takes the later value
RECURSIVE ParseMembers(_, _, _)
ParseMembers(s, i, members) ==
    IF i > Len(s) \/ s[i] /= Quote THEN ParseFailure
    ELSE LET key == ParseStringLiteral(s, i)
             c == SkipSpace(s, key.next)
         IN  IF ~key.ok \/ c > Len(s) \/ s[c] /= ":" THEN ParseFailure
             ELSE LET v == ParseValue(s, c + 1)
                      d == SkipSpace(s, v.next)
                      read == SetProperty(members, key.value.str, v.value)
                  IN  IF ~v.ok \/ d > Len(s) THEN ParseFailure
                      ELSE IF s[d] = "}" THEN Parsed(JObject(read), d + 1)
                      ELSE IF s[d] = "," THEN ParseMembers(s, SkipSpace(s, d + 1), read)
                      ELSE ParseFailure

\* the value that starts at or after position i
ParseValue(s, i) ==
    LET j == SkipSpace(s, i)
    IN  IF j > Len(s) THEN ParseFailure
        ELSE CASE s[j] = "{" ->
                    LET k == SkipSpace(s, j + 1)
                    IN  IF k <= Len(s) /\ s[k] = "}" THEN Parsed(JObject(<< >>), k + 1)
                        ELSE ParseMembers(s, k, << >>)
               [] s[j] = "[" ->
                    LET k == SkipSpace(s, j + 1)
                    IN  IF k <= Len(s) /\ s[k] = "]" THEN Parsed(JArray(<< >>), k + 1)
                        ELSE ParseItems(s, k, << >>)
               [] s[j] = Quote -> ParseStringLiteral(s, j)
               [] s[j] \in Digit -> ParseNumber(s, j)
               [] OTHER -> ParseLiteral(s, j)

\* JSON.parse(s): ok is false for a SyntaxError
JSONParse(s) ==
    LET r == ParseValue(s, 1)
    IN  IF r.ok /\ SkipSpace(s, r.next) > Len(s) THEN r ELSE ParseFailure

-----------------------------------------------------------------------------
(* parseHocrContentForEntities *)

KeyType == << "t","y","p","e" >>

KeyAttributes == << "a","t","t","r","i","b","u","t","e","s" >>

KeyXEntity == << "x","_","e","n","t","i","t","y" >>

KeyId == << "i","d" >>

KeyText == << "t","e","x","t" >>

KeyChildren == << "c","h","i","l","d","r","e","n" >>

KeyHasOwnProperty == << "h","a","s","O","w","n","P","r","o","p","e","r","t","y" >>

KeyProto == << "_","_","p","r","o","t","o","_","_" >>

WordKind == << "w","o","r","d" >>

ObjectObject == << "[","o","b","j","e","c","t"," ","O","b","j","e","c","t","]" >>

\* String(v), as a property key is made of a value
RECURSIVE ToPropertyKey(_)
ToPropertyKey(v) ==
    CASE v.kind = "string" -> v.str
      [] v.kind = "number" -> NatToString(v.num)
      [] v.kind = "boolean" -> IF v.num = 1 THEN << "t","r","u","e" >>
                                            ELSE << "f","a","l","s","e" >>
      [] v.kind = "object" -> ObjectObject
      [] v.kind = "array" ->
            ArrayJoin([ i \in DOMAIN v.members |->
                          IF v.members[i][2].kind \in { "null", "undefined" } THEN << >>
                          ELSE ToPropertyKey(v.members[i][2]) ],
                      << "," >>)
      [] OTHER -> << >>

\* mapping[key] = value on a plain object, for a string value: the key
\* __proto__ is the inherited setter, which ignores a value that is no object
AssignProperty(mapping, key, value) ==
    IF key = KeyProto THEN mapping ELSE SetProperty(mapping, key, value)

\* the state of a traversal: the mapping so far, the nodes visited so far, each
\* by its path from the root, and whether a TypeError was thrown
NoTraversal == [ mapping |-> << >>, visits |-> << >>, error |-> FALSE ]

RECURSIVE traverseJson(_, _, _)
\* obj.children.forEach(child => traverseJson(child)), from child k on
RECURSIVE TraverseChildren(_, _, _, _)
TraverseChildren(children, k, path, st) ==
    IF k > Len(children) THEN st
    ELSE TraverseChildren(children, k + 1, path,
             traverseJson(children[k][2], path \o << KeyChildren, children[k][1] >>, st))

\* for (const key in obj), from property k on
RECURSIVE TraverseProperties(_, _, _, _)
TraverseProperties(obj, k, path, st) ==
    IF k > Len(obj.members) \/ st.error THEN st
    ELSE IF HasMember(obj, KeyHasOwnProperty)
         \* obj.hasOwnProperty is the object's own property, not the method
         THEN [ st EXCEPT !.error = TRUE ]
         ELSE LET value == obj.members[k][2]
              IN  TraverseProperties(obj, k + 1, path,
                      IF value.kind \in { "object", "array" }
                      THEN traverseJson(value, path \o << obj.members[k][1] >>, st)
                      ELSE st)

traverseJson(obj, path, st) ==
    IF st.error \/ ~Truthy(obj) \/ ~IsObjectType(obj) THEN st
    ELSE LET visited == [ st EXCEPT !.visits = Append(@, path) ]
             attributes == Get(obj, KeyAttributes)
             x_entity == Get(attributes, KeyXEntity)
             checked ==
                 IF /\ Get(obj, KeyType) = JString(WordKind)
                    /\ Truthy(attributes)
                    /\ Truthy(x_entity)
                    /\ Truthy(Get(obj, KeyId))
                    /\ Truthy(Get(obj, KeyText))
                 THEN IF x_entity.kind /= "string"
                      \* x_entity.split is not a function
                      THEN [ visited EXCEPT !.error = TRUE ]
                      ELSE LET entityKey == ArrayJoin(SplitWords(x_entity.str), << "_" >>)
                           IN  [ visited EXCEPT !.mapping =
                                   AssignProperty(@, ToPropertyKey(Get(obj, KeyText)),
                                                  entityKey) ]
                 ELSE visited
             children == Get(obj, KeyChildren)
             afterChildren ==
                 IF Truthy(children) /\ children.kind = "array"
                 THEN TraverseChildren(children.members, 1, path, checked)
                 ELSE checked
         IN  IF afterChildren.error THEN afterChildren
             ELSE TraverseProperties(obj, 1, path, afterChildren)

\* TraversalOf without the try/catch around JSON.parse: the SyntaxError is thrown on
TraversalOfRethrowing(content) ==
    IF content.kind = "string" /\ ~JSONParse(content.str).ok
    THEN [ NoTraversal EXCEPT !.error = TRUE ]
    ELSE traverseJson(IF content.kind = "string" THEN JSONParse(content.str).value
                      ELSE content,
                      << >>, NoTraversal)

\* the traversal parseHocrContentForEntities makes for its argument: a string
\* is parsed, and data stays undefined when the parse throws
TraversalOf(content) ==
    LET data == IF content.kind = "string"
                THEN IF JSONParse(content.str).ok THEN JSONParse(content.str).value
                     ELSE JUndefined
                ELSE content
    IN  traverseJson(data, << >>, NoTraversal)

parseHocrContentForEntities(content) ==
    IF TraversalOf(content).error THEN MappingTypeError
    ELSE TraversalOf(content).mapping

-----------------------------------------------------------------------------
(* The decoder applied to every value of the bounded set *)

XEntityCity == << "c","i","t","y"," ","0" >>

XEntityFirstName == << "f","i","r","s","t","_","n","a","m","e"," ","0" >>

Attributes(value) == JObject(<< << KeyXEntity, value >> >>)

IsPresent(member) == member[2] /= JUndefined

\* a node with the four fields, a field that is JUndefined left out
WordNode(type, attributes, id, text) ==
    JObject(SelectSeq(<< << KeyType, type >>, << KeyAttributes, attributes >>,
                         << KeyId, id >>, << KeyText, text >> >>, IsPresent))

NodeTypes == { JString(WordKind), JString(<< "l","i","n","e" >>) }

NodeAttributes ==
    { JUndefined, Attributes(JString(XEntityCity)), Attributes(JString(XEntityFirstName)),
      Attributes(JNumber(5)) }

NodeIds == { JUndefined, JNumber(0), JNumber(1) }

NodeTexts == { JString(<< >>), JString(<< "K" >>), JString(<< "(" >>), JString(KeyProto) }

\* every combination of the four fields
Nodes ==
    { WordNode(t, a, i, x) : t \in NodeTypes, a \in NodeAttributes,
                             i \in NodeIds, x \in NodeTexts }

\* the nodes that stand side by side in a children array
Siblings ==
    { WordNode(JString(WordKind), a, JNumber(1), x) :
        a \in { Attributes(JString(XEntityCity)), Attributes(JString(XEntityFirstName)) },
        x \in { JString(<< "K" >>), JString(<< "D" >>) } }
      \cup { WordNode(JString(WordKind), JUndefined, JNumber(1), JString(<< "K" >>)),
              WordNode(JString(WordKind), Attributes(JString(XEntityFirstName)),
                       JNumber(0), JString(<< "K" >>)) }

Under(key, value) == JObject(<< << key, value >> >>)

\* a node on its own, in a children array, in an array, and three levels deep
\* under other keys; children arrays of siblings, at the root and one level
\* down; values that are no tree
Trees ==
    Nodes
      \cup { Under(KeyChildren, JArray(<< n >>)) : n \in Nodes }
      \cup { JArray(<< n >>) : n \in Nodes }
      \cup { Under(<< "a" >>, Under(<< "b" >>, Under(<< "c" >>, n))) : n \in Nodes }
      \cup { Under(KeyChildren, JArray(c)) :
               c \in UNION { [1..k -> Siblings] : k \in 0..MaxChildren } }
      \cup { Under(<< "p","a","g","e" >>, Under(KeyChildren, JArray(c))) :
               c \in UNION { [1..k -> Siblings] : k \in 0..MaxChildren } }
      \cup { Under(KeyHasOwnProperty, JNumber(1)), JNull, JNumber(5), JBoolean(TRUE) }

\* strings that are not JSON
MalformedStrings ==
    { << >>,
      << "{" >>,
      << "K" >>,
      << "[", "1", ",", "]" >>,
      << "{", Quote, "a", Quote, "}" >>,
      << "{", Quote, "a", Quote, ":", Quote, "K", "}" >>,
      << "{", "'", "a", "'", ":", "1", "}" >>,
      << "{", "}", "{", "}" >> }

\* strings that are JSON: trees stringified, one of them with whitespace
JsonStrings ==
    { JSONStringify(Under(KeyChildren, JArray(<< n >>))) : n \in Siblings }
      \cup { << " ", "[", " " >> \o JSONStringify(n) \o << "\n", "]", " " >> : n \in Siblings }

\* the text of the request the mapping is applied to
DecodeText == << "K", " ", "(", "D", ")" >>

InitDecode ==
    /\ jsonContent \in Trees \cup { JString(str) : str \in MalformedStrings \cup JsonStrings }
    /\ decoded = << >>
    /\ decodedStringified = << >>
    /\ decodeSubstituted = << >>
    /\ decodeCalls = {}
    /\ decodeVisits = << >>
    /\ EncIdle /\ SubIdle /\ PhIdle /\ FlowIdle /\ TitleIdle /\ FileIdle /\ RequestIdle /\ DebounceIdle

\* a call of parseHocrContentForEntities(jsonContent)
ParseContent ==
    /\ "content" \notin decodeCalls
    /\ decoded' = parseHocrContentForEntities(jsonContent)
    /\ decodeVisits' = TraversalOf(jsonContent).visits
    /\ decodeCalls' = decodeCalls \cup { "content" }
    /\ UNCHANGED <<jsonContent, decodedStringified, decodeSubstituted,
                   encVars, subVars, phVars, flowVars, titleVars, fileVars, requestVars, debounceVars>>

\* a call of parseHocrContentForEntities(JSON.stringify(jsonContent))
ParseStringified ==
    /\ "stringified" \notin decodeCalls
    /\ decodedStringified' = parseHocrContentForEntities(JString(JSONStringify(jsonContent)))
    /\ decodeCalls' = decodeCalls \cup { "stringified" }
    /\ UNCHANGED <<jsonContent, decoded, decodeSubstituted, decodeVisits,
                   encVars, subVars, phVars, flowVars, titleVars, fileVars, requestVars, debounceVars>>

\* the substitution loop of handleHocrEndpoint under the mapping that
\* parseHocrContentForEntities returned
SubstituteDecoded ==
    /\ "content" \in decodeCalls
    /\ "substituted" \notin decodeCalls
    /\ decoded /= MappingTypeError
    /\ decodeSubstituted' = hocrPseudonymizedText(DecodeText, decoded)
    /\ decodeCalls' = decodeCalls \cup { "substituted" }
    /\ UNCHANGED <<jsonContent, decoded, decodedStringified, decodeVisits,
                   encVars, subVars, phVars, flowVars, titleVars, fileVars, requestVars, debounceVars>>

NextDecode == ParseContent \/ ParseStringified \/ SubstituteDecoded

SpecDecode == InitDecode /\ [][NextDecode]_vars

-----------------------------------------------------------------------------
(* A successful /hocr request from the text to the pseudonymized text: the   *)
(* encoder, the extraction that annotates word regions, the decoder and the  *)
(* substitution loop                                                         *)

HocrAlphabet == { "K", "D", ".", "U+00FC", " " }

\* the labels the extraction gives an entity
ExtractionLabels == { XEntityCity, XEntityFirstName }

\* the node of the answer for a word region: the region's id and text, and the
\* x_entity attribute when the extraction annotated it
AnnotatedNode(word, ids, label) ==
    WordNode(JString(WordKind),
             IF word.id \in ids THEN Attributes(JString(label)) ELSE JUndefined,
             JNumber(word.id), JString(word.text))

\* the answer of the extraction for a document: its word regions under a
\* children array, those of ids annotated with the label
ExtractionAnswer(doc, ids, label) ==
    Under(KeyChildren,
          JArray([ i \in DOMAIN WordsOf(doc) |-> AnnotatedNode(WordsOf(doc)[i], ids, label) ]))

InitHocr ==
    /\ encText \in StringsOver(HocrAlphabet, MaxTextLen)
    /\ hocrDoc = << >>
    /\ encPc = "start"
    /\ annotated = {}
    /\ hocrMappings = << >>
    /\ hocrAnswer = << >>
    /\ SubIdle /\ PhIdle /\ FlowIdle /\ WorkerIdle

\* processHocrWithRemoteServer: the extraction answers with some of the word
\* regions annotated, and the answer is decoded
ExtractionAnnotates ==
    /\ encPc = "done"
    /\ \E ids \in SUBSET { WordsOf(hocrDoc)[i].id : i \in DOMAIN WordsOf(hocrDoc) },
          label \in ExtractionLabels :
          /\ annotated' = ids
          /\ hocrMappings' = parseHocrContentForEntities(ExtractionAnswer(hocrDoc, ids, label))
    /\ encPc' = "extracted"
    /\ UNCHANGED <<encText, hocrDoc, hocrAnswer, subVars, phVars, flowVars, workerVars>>

\* the substitution loop of handleHocrEndpoint and the response
AnswerHocr ==
    /\ encPc = "extracted"
    /\ hocrMappings /= MappingTypeError
    /\ hocrAnswer' = hocrPseudonymizedText(encText, hocrMappings)
    /\ encPc' = "answered"
    /\ UNCHANGED <<encText, hocrDoc, annotated, hocrMappings,
                   subVars, phVars, flowVars, workerVars>>

NextHocr == Encode \/ ExtractionAnnotates \/ AnswerHocr

SpecHocr == InitHocr /\ [][NextHocr]_vars

-----------------------------------------------------------------------------
(* The worker's two POST handlers, from the request to the response.  A      *)
(* handler runs from one await to the next in one step.                      *)

\* text.length > 10000
MaxTextChars == 10000

StatusOk == 200

StatusBadRequest == 400

StatusServerError == 500

PathImprove == << "/","i","m","p","r","o","v","e" >>

PathHocr == << "/","h","o","c","r" >>

\* request.json() rejects: the body is not JSON
BodyNotJson == [ kind |-> "invalid", str |-> << >>, num |-> 0, members |-> << >> ]

\* the response is sent and the handler returns
Respond(status) ==
    /\ responseStatus' = status
    /\ reqPc' = "done"

\* const { text } = requestData throws for null
BodyThrows(body) == body = BodyNotJson \/ body.kind \in { "null", "undefined" }

\* the status the validation of the text answers with, 0 when the text passes
ValidationStatus(text) ==
    IF ~Truthy(text) \/ text.kind /= "string" THEN StatusBadRequest
    ELSE IF Len(text.str) > MaxTextChars THEN StatusBadRequest
    ELSE 0

\* handleImproveEndpoint, to its await of the chat-completion fetch
HandleImprove ==
    /\ reqPc = "received"
    /\ request.path = PathImprove
    /\ IF BodyThrows(request.body)
       THEN Respond(StatusServerError) /\ UNCHANGED modelCalls
       ELSE IF ValidationStatus(Get(request.body, KeyText)) /= 0
       THEN Respond(ValidationStatus(Get(request.body, KeyText))) /\ UNCHANGED modelCalls
       ELSE IF ~env.OPENAI_API_KEY
       THEN Respond(StatusServerError) /\ UNCHANGED modelCalls
       ELSE /\ modelCalls' = modelCalls + 1
            /\ reqPc' = "awaitModel"
            /\ UNCHANGED responseStatus
    /\ UNCHANGED <<request, env, encodings, extractionCalls, externalOutcome,
                   encVars, subVars, phVars, flowVars, titleVars, fileVars, decodeVars,
                   debounceVars>>

\* the fetch of improveTextWithChatGPT settles: "ok" with a well-formed
\* completion, "status" with a non-success status, "format" with a body
\* without choices, "network" with a rejection
ModelResponds(outcome) ==
    /\ reqPc = "awaitModel"
    /\ Respond(IF outcome = "ok" THEN StatusOk ELSE StatusServerError)
    /\ externalOutcome' = outcome
    /\ UNCHANGED <<request, env, encodings, extractionCalls, modelCalls,
                   encVars, subVars, phVars, flowVars, titleVars, fileVars, decodeVars,
                   debounceVars>>

\* handleHocrEndpoint, to the await of processHocrWithRemoteServer: the fetch
\* of the extraction endpoint, or the read of test.json under env.SIMULATE
HandleHocr ==
    /\ reqPc = "received"
    /\ request.path = PathHocr
    /\ IF BodyThrows(request.body)
       THEN Respond(StatusServerError) /\ UNCHANGED <<encodings, extractionCalls>>
       ELSE IF ValidationStatus(Get(request.body, KeyText)) /= 0
       THEN /\ Respond(ValidationStatus(Get(request.body, KeyText)))
            /\ UNCHANGED <<encodings, extractionCalls>>
       ELSE IF ~env.CIB_POP_USERNAME \/ ~env.CIB_POP_PASSWORD \/ ~env.CIB_POP_URL
       THEN Respond(StatusServerError) /\ UNCHANGED <<encodings, extractionCalls>>
       ELSE /\ encodings' = encodings + 1
            /\ UNCHANGED responseStatus
            /\ IF env.SIMULATE
               THEN reqPc' = "awaitFile" /\ UNCHANGED extractionCalls
               ELSE reqPc' = "awaitExtraction" /\ extractionCalls' = extractionCalls + 1
    /\ UNCHANGED <<request, env, modelCalls, externalOutcome,
                   encVars, subVars, phVars, flowVars, titleVars, fileVars, decodeVars,
                   debounceVars>>

\* ExtractionResponds with a second fetch after a response that is no success
ExtractionRespondsRetrying(outcome) ==
    /\ reqPc = "awaitExtraction"
    /\ externalOutcome' = outcome
    /\ IF outcome /= "ok" /\ extractionCalls < 2
       THEN /\ extractionCalls' = extractionCalls + 1
            /\ UNCHANGED <<reqPc, responseStatus>>
       ELSE /\ Respond(IF outcome = "ok" THEN StatusOk ELSE StatusServerError)
            /\ UNCHANGED extractionCalls
    /\ UNCHANGED <<request, env, encodings, modelCalls,
                   encVars, subVars, phVars, flowVars, titleVars, fileVars, decodeVars,
                   debounceVars>>

\* the fetch of processHocrWithRemoteServer settles: "ok" with a tree the
\* decode and the substitution accept, "status" with a non-success status,
\* "format" with a body that is not JSON, "throws" with a tree on which the
\* decode or the substitution throws, "network" with a rejection
ExtractionResponds(outcome) ==
    /\ reqPc = "awaitExtraction"
    /\ Respond(IF outcome = "ok" THEN StatusOk ELSE StatusServerError)
    /\ externalOutcome' = outcome
    /\ UNCHANGED <<request, env, encodings, extractionCalls, modelCalls,
                   encVars, subVars, phVars, flowVars, titleVars, fileVars, decodeVars,
                   debounceVars>>

\* under env.SIMULATE test.json is read in place of the fetch: "ok",
\* "missing" when the file cannot be read or parsed, "throws" with a tree on
\* which the decode or the substitution throws
SimulationFileRead(outcome) ==
    /\ reqPc = "awaitFile"
    /\ Respond(IF outcome = "ok" THEN StatusOk ELSE StatusServerError)
    /\ externalOutcome' = outcome
    /\ UNCHANGED <<request, env, encodings, extractionCalls, modelCalls,
                   encVars, subVars, phVars, flowVars, titleVars, fileVars, decodeVars,
                   debounceVars>>

TextOfLength(n) == [ i \in 1..n |-> "a" ]

\* the values of the text property: not a string, empty, and strings about the limit
TextValues ==
    { JNull, JNumber(0), JNumber(5), JBoolean(TRUE), JArray(<< >>),
      JArray(<< JString(<< "a" >>) >>), JString(<< >>), JString(TextOfLength(1)),
      JString(TextOfLength(MaxTextChars - 1)), JString(TextOfLength(MaxTextChars)),
      JString(TextOfLength(MaxTextChars + 1)) }

\* what request.json() gives: no JSON, JSON that is no object, an object
\* without text, an object with text
Bodies ==
    { BodyNotJson, JNull, JNumber(5), JString(<< "a" >>), JObject(<< >>) }
      \cup { JObject(<< << KeyText, v >> >>) : v \in TextValues }

Environments ==
    [ OPENAI_API_KEY : BOOLEAN, CIB_POP_USERNAME : BOOLEAN, CIB_POP_PASSWORD : BOOLEAN,
      CIB_POP_URL : BOOLEAN, SIMULATE : BOOLEAN ]

InitRequest ==
    /\ request \in [ path : { PathImprove, PathHocr }, body : Bodies ]
    /\ env \in Environments
    /\ reqPc = "received"
    /\ responseStatus = 0
    /\ encodings = 0
    /\ extractionCalls = 0
    /\ modelCalls = 0
    /\ externalOutcome = "none"
    /\ EncIdle /\ SubIdle /\ PhIdle /\ FlowIdle /\ TitleIdle /\ FileIdle /\ DecodeIdle
    /\ DebounceIdle

NextRequest ==
    \/ HandleImprove
    \/ \E outcome \in { "ok", "status", "format", "network" } : ModelResponds(outcome)
    \/ HandleHocr
    \/ \E outcome \in { "ok", "status", "format", "throws", "network" } :
          ExtractionResponds(outcome)
    \/ \E outcome \in { "ok", "missing", "throws" } : SimulationFileRead(outcome)

SpecRequest == InitRequest /\ [][NextRequest]_vars

-----------------------------------------------------------------------------
(* debounce(func, wait).  Time advances in ticks; a timer whose delay has   *)
(* run down is run by the event loop at that tick or later.                  *)

\* clearTimeout that cancels nothing
ClearNoTimeout(timers, id) == timers

\* clearTimeout(id): the timer with that id, if it is still set, is cancelled
ClearTimeout(timers, id) == { t \in timers : t.id /= id }

\* the arguments a call may carry
DebounceArgs == { "a", "b" }

InitDebounce ==
    /\ dbWait \in 1..MaxWait
    /\ dbNow = 0
    /\ dbTimeout = 0
    /\ dbTimers = {}
    /\ dbCalls = << >>
    /\ dbRuns = << >>
    /\ EncIdle /\ SubIdle /\ PhIdle /\ FlowIdle
    /\ TitleIdle /\ FileIdle /\ DecodeIdle /\ RequestIdle

\* executedFunction(...args): clearTimeout(timeout); timeout = setTimeout(later, wait)
DebouncedCall(args) ==
    /\ Len(dbCalls) < MaxCalls
    /\ LET id == Len(dbCalls) + 1
       IN  /\ dbTimers' = ClearTimeout(dbTimers, dbTimeout)
                            \cup { [ id |-> id, remaining |-> dbWait, args |-> args ] }
           /\ dbTimeout' = id
    /\ dbCalls' = Append(dbCalls, [ args |-> args, at |-> dbNow ])
    /\ UNCHANGED <<dbWait, dbNow, dbRuns, encVars, subVars, phVars, flowVars,
                   titleVars, fileVars, decodeVars, requestVars>>

\* a tick of the clock
Tick ==
    /\ dbNow < MaxTicks
    /\ dbNow' = dbNow + 1
    /\ dbTimers' = { [ t EXCEPT !.remaining = IF @ > 0 THEN @ - 1 ELSE 0 ] : t \in dbTimers }
    /\ UNCHANGED <<dbWait, dbTimeout, dbCalls, dbRuns, encVars, subVars, phVars, flowVars,
                   titleVars, fileVars, decodeVars, requestVars>>

\* later(), run for a timer whose delay has run down: clearTimeout(timeout);
\* func(...args)
Later ==
    /\ \E t \in dbTimers :
          /\ t.remaining = 0
          /\ dbTimers' = ClearTimeout(dbTimers \ { t }, dbTimeout)
          /\ dbRuns' = Append(dbRuns, [ args |-> t.args, at |-> dbNow,
                                        calls |-> Len(dbCalls) ])
    /\ UNCHANGED <<dbWait, dbNow, dbTimeout, dbCalls, encVars, subVars, phVars, flowVars,
                   titleVars, fileVars, decodeVars, requestVars>>

NextDebounce ==
    \/ \E args \in DebounceArgs : DebouncedCall(args)
    \/ Tick
    \/ Later

SpecDebounce == InitDebounce /\ [][NextDebounce]_vars

-----------------------------------------------------------------------------
(* Reading a document back, and the text it was made from *)

RECURSIVE JoinWith(_, _)
JoinWith(strs, sep) ==
    IF strs = << >> THEN << >>
    ELSE IF Len(strs) = 1 THEN strs[1]
    ELSE strs[1] \o sep \o JoinWith(Tail(strs), sep)

\* each line region read as its word texts joined by single spaces
DecodedLines(doc) ==
    [ i \in DOMAIN doc |->
        JoinWith([ j \in DOMAIN doc[i].words |-> doc[i].words[j].text ], << " " >>) ]

IsNonEmpty(s) == s /= << >>

\* the whitespace-separated tokens of a text
TokensOf(text) == SelectSeq(SplitWords(text), IsNonEmpty)

\* punctuation: neither a letter (ASCII or not), a digit, an underscore nor whitespace
IsPunctuation(c) == c \notin (WordChar \cup NonAsciiLetter \cup Space)

IsNotPunctuation(c) == ~IsPunctuation(c)

StripPunctuation(token) == SelectSeq(token, IsNotPunctuation)

StrippedTokensOf(text) ==
    SelectSeq([ i \in DOMAIN TokensOf(text) |-> StripPunctuation(TokensOf(text)[i]) ],
              IsNonEmpty)

IsNonBlank(line) == Trim(line) /= << >>

NonBlankLinesOf(text) == SelectSeq(SplitLines(text), IsNonBlank)

HasNoBlankLine(text) == \A i \in DOMAIN SplitLines(text) : IsNonBlank(SplitLines(text)[i])

ExpectedLines(text) ==
    [ i \in DOMAIN NonBlankLinesOf(text) |->
        JoinWith(StrippedTokensOf(NonBlankLinesOf(text)[i]), << " " >>) ]

-----------------------------------------------------------------------------
(* Claims about the encoder *)

\* C7: for a text with no blank line, the number of word regions of the document
\* is the number of whitespace-separated tokens of the text that are non-empty
\* once their punctuation is stripped.
C7_WordCountIsTokenCount ==
    (encPc = "done" /\ HasNoBlankLine(encText))
        => Len(WordsOf(hocrDoc)) = Len(StrippedTokensOf(encText))

\* C8: the line regions, each read as its word texts joined by single spaces,
\* are the non-blank lines of the text with every token stripped of punctuation,
\* tokens in their original order.
C8_EncoderRoundTrip ==
    encPc = "done" => DecodedLines(hocrDoc) = ExpectedLines(encText)

\* C9: the word identifiers in emission order are 1, 2, ..., n with no gap or
\* repeat, across all lines; a dropped token consumes no identifier.
C9_WordIdsSequential ==
    encPc = "done" => \A i \in DOMAIN WordsOf(hocrDoc) : WordsOf(hocrDoc)[i].id = i

\* C9 witness: two line regions carry words, and a token that was dropped
\* comes before a word that was emitted.
C9_Witness ==
    /\ encPc = "done"
    /\ Cardinality({ i \in DOMAIN hocrDoc : hocrDoc[i].words /= << >> }) >= 2
    /\ \E k \in DOMAIN TokensOf(encText) :
          /\ CleanWord(TokensOf(encText)[k]) = << >>
          /\ \E m \in DOMAIN TokensOf(encText) :
                m > k /\ CleanWord(TokensOf(encText)[m]) /= << >>

\* C10: no empty region is emitted: every emitted line region holds at least
\* one word region.
C10_NoEmptyRegion ==
    encPc = "done" => \A i \in DOMAIN hocrDoc : hocrDoc[i].words /= << >>

\* the texts of the word regions of a document, in emission order
WordTextsOf(doc) == [ i \in DOMAIN WordsOf(doc) |-> WordsOf(doc)[i].text ]

\* C11: the word regions carry, token by token, the whitespace-separated tokens
\* of the text with their punctuation characters removed and every other
\* character kept in order; a token that is empty once stripped has no region.
C11_WordTextIsStrippedToken ==
    encPc = "done" => WordTextsOf(hocrDoc) = StrippedTokensOf(encText)

\* C22: the line identifiers in emission order are 1, 2, ..., n, so that no two
\* line regions of a document share an identifier, across paragraphs and past
\* skipped blank lines.
C22_LineIdsSequential ==
    encPc = "done"
        => /\ \A i \in DOMAIN hocrDoc : hocrDoc[i].id = i
           /\ \A i, j \in DOMAIN hocrDoc : i /= j => hocrDoc[i].id /= hocrDoc[j].id

-----------------------------------------------------------------------------
(* Claims about the substitution engine *)

IncludesIgnoreCase(s, sub) ==
    \E i \in DOMAIN s : LiteralMatchLen(s, i, sub, TRUE) > 0

\* C1: for a non-empty mapping from label to text and a text that holds a span
\* of the mapping, restoring the pseudonymized text gives the text back.
C1_RestoreAfterPseudonymize ==
    ( /\ subPc = "restored"
      /\ IsTypeToValue(subMappings)
      /\ Len(subMappings) > 0
      /\ \E k \in DOMAIN subMappings : Includes(subText, subMappings[k][2]) )
        => restored = subText

\* C3: pseudonymizing a text with a mapping from span text to entity id puts
\* the canonical placeholder of the id's category where the span was (stated
\* for the mappings of one entry, where no two spans can overlap).
C3_SpanReplacedByCategoryPlaceholder ==
    ( /\ subPc \in { "pseudonymized", "hocr" }
      /\ IsTextToId(subMappings)
      /\ Len(subMappings) = 1
      /\ Includes(subText, subMappings[1][1]) )
        => LET out == IF subPc = "hocr" THEN hocrPseudonymized ELSE pseudonymized
           IN  /\ Includes(out, PlaceholderForPseudonymize(subMappings[1][2]))
               /\ ~Includes(out, subMappings[1][1])

\* C4: after the forward substitution no occurrence of a mapped span, in any
\* letter case, remains in the output.
C4_NoSpanRemains ==
    /\ (subPc = "hocr" /\ IsTextToId(subMappings))
          => \A k \in DOMAIN subMappings :
                ~IncludesIgnoreCase(hocrPseudonymized, subMappings[k][1])
    /\ (subPc = "pseudonymized" /\ IsTypeToValue(subMappings))
          => \A k \in DOMAIN subMappings :
                ~IncludesIgnoreCase(pseudonymized, subMappings[k][2])

-----------------------------------------------------------------------------
(* Claims about the placeholder choice *)

\* the categories in the order of their tests: keywords and placeholder
PlaceholderCategories ==
    << << { KwName }, PERSON >>,
       << { KwNumber, KwId }, NUMMER >>,
       << { KwEmail }, EMAIL >>,
       << { KwAddress }, ADRESSE >>,
       << { KwPhone }, TELEFON >> >>

CategoriesOf(label) ==
    { c \in DOMAIN PlaceholderCategories :
        \E kw \in PlaceholderCategories[c][1] : Includes(label, kw) }

ExpectedPlaceholder(label) ==
    IF CategoriesOf(label) = {}
    THEN << "[" >> \o ToUpperCase(label) \o << "]" >>
    ELSE PlaceholderCategories[
             CHOOSE c \in CategoriesOf(label) : \A d \in CategoriesOf(label) : c <= d ][2]

\* C5: the placeholder is a function of the label alone, chosen by the first
\* of the tests name, number/id, email, address, phone that the label passes,
\* else the label uppercased in square brackets; createPseudonymizedText and
\* restoreOriginalEntities choose the same placeholder for every label.
C5_PlaceholderByLabel ==
    /\ phCreate /= << >> => phCreate = ExpectedPlaceholder(phLabel)
    /\ phRestore /= << >> => phRestore = ExpectedPlaceholder(phLabel)
    /\ (phCreate /= << >> /\ phRestore /= << >>) => phCreate = phRestore

\* C5 witness: both functions have chosen for a label that passes the
\* number/id test and the email test.
C5_Witness ==
    /\ Includes(phLabel, KwEmail)
    /\ Includes(phLabel, KwId)
    /\ phCreate = NUMMER
    /\ phRestore = NUMMER

-----------------------------------------------------------------------------
(* Claims about the browser cascade *)

\* C2: when the HOCR call of a cascade succeeded with a non-empty mapping,
\* handleImprovedChange of that cascade restores with that mapping:
\* storedEntityMappings holds the mapping returned for the input.
C2_RestoreUsesReturnedMapping ==
    (lastRestore.ran /\ lastRestore.hocrOk /\ Len(lastRestore.hocrMappings) > 0)
        => lastRestore.used = lastRestore.hocrMappings

\* C6: with an empty or absent mapping both directions take the fixed
\* simulation: the pseudonymized field gets simulatePseudonymization of the
\* input text and the final field gets simulateVibeTexting of the improved text.
C6_EmptyMappingTakesSimulation ==
    /\ (lastHocr.ran /\ lastHocr.mappings = << >>)
          => lastHocr.value = simulatePseudonymization(lastHocr.text)
    /\ (lastRestore.ran /\ lastRestore.used = << >>)
          => finalValue = simulateVibeTexting(lastRestore.text)

\* every call the cascade made has settled
AllSettled == pendingHocr = << >> /\ pendingImprove = << >>

\* C26: overlapping cascades leave no stale result: once every pending call
\* has settled after an edit to a non-empty input, the pseudonymized field
\* holds the value computed for that input, and the improved and final fields
\* were written by the cascade of that input, whatever the order in which the
\* responses arrived.
C26_NoStaleResult ==
    (AllSettled /\ Trim(inputValue) /= << >>)
        => /\ lastHocr.ran
           /\ lastHocr.text = Trim(inputValue)
           /\ pseudonymizedValue = lastHocr.value
           /\ lastRestore.ran => lastRestore.input = Trim(inputValue)

\* C28: every run of handleInputChange on a non-empty input is followed, once
\* its fetches have settled in success or in failure, by a write of the final
\* text: the n-th cascade that starts leads to the n-th write.
C28_EveryInputYieldsFinalText ==
    \A n \in 1..MaxInputs : (cascades >= n) ~> (finalWrites >= n)

\* C28 witness: both fetches of a cascade failed and the final text was
\* written by that cascade.
C28_Witness ==
    /\ cascades = 1
    /\ finalWrites = 1
    /\ AllSettled
    /\ lastHocr.ran /\ ~lastHocr.ok
    /\ lastRestore.ran /\ ~lastRestore.hocrOk
    /\ lastRestore.text = simulateTextImprovement(lastHocr.value)

-----------------------------------------------------------------------------
(* Claims about the HOCR parser script *)

StartsWithMarker(segment) == StartsWith(segment, XEntityMarker)

\* the trimmed segments of a title that start with the marker, in order
MarkedSegments(t) ==
    SelectSeq([ i \in DOMAIN SplitSegments(t) |-> Trim(SplitSegments(t)[i]) ],
              StartsWithMarker)

\* the whitespace-separated tokens that follow the marker in a marked segment
TokensAfterMarker(segment) ==
    TokensOf(SubSeq(segment, Len(XEntityMarker) + 1, Len(segment)))

\* a title carries a label when its first marked segment has a token after the marker
CarriesLabel(t) ==
    MarkedSegments(t) /= << >> /\ TokensAfterMarker(MarkedSegments(t)[1]) /= << >>

ExpectedLabel(t) ==
    LET tokens == TokensAfterMarker(MarkedSegments(t)[1])
    IN  IF Len(tokens) = 1 THEN tokens[1]
        ELSE JoinWith(SubSeq(tokens, 1, Len(tokens) - 1), << " " >>)

\* C12: for the segment of the title whose trimmed value starts with x_entity,
\* the value returned is the tokens after the marker except the last one, joined
\* by single spaces; the token itself when exactly one follows the marker.
C12_LabelIsTokensButLast ==
    (xEntity /= NotReturned /\ CarriesLabel(title)) => xEntity = ExpectedLabel(title)

\* C12 witness: a title with another segment before the marked one, and two
\* tokens after the marker, has returned the first token.
C12_Witness ==
    /\ xEntity = city
    /\ Len(SplitSegments(title)) >= 2
    /\ ~StartsWithMarker(Trim(SplitSegments(title)[1]))
    /\ Len(TokensAfterMarker(MarkedSegments(title)[1])) = 2

\* C13: the value returned is a non-empty entity name or null, and it is null
\* for every title that carries no label (no x_entity segment, or an x_entity
\* segment with no token after the marker).
C13_NonEmptyNameOrNull ==
    xEntity /= NotReturned
        => /\ xEntity = Null \/ xEntity /= << >>
           /\ ~CarriesLabel(title) => xEntity = Null

\* a word is annotated when its title carries a label
IsAnnotated(word) == word.title /= NoAttribute /\ CarriesLabel(word.title)

AnnotatedWords(words) == SelectSeq(words, IsAnnotated)

LabelsOf(words) ==
    { ExpectedLabel(AnnotatedWords(words)[i].title) : i \in DOMAIN AnnotatedWords(words) }

\* the trimmed texts of the words with a label, in document order
RECURSIVE TextsWithLabel(_, _)
TextsWithLabel(words, label) ==
    IF words = << >> THEN << >>
    ELSE (IF IsAnnotated(Head(words)) /\ ExpectedLabel(Head(words).title) = label
          THEN << Trim(Head(words).text) >> ELSE << >>)
           \o TextsWithLabel(Tail(words), label)

\* C14: the mapping returned has exactly the labels of the annotated words as
\* keys, each once, and the value of a label is the trimmed texts of the words
\* with that label joined by single spaces in document order; words without a
\* label, a missing title included, contribute to no entry.
C14_MappingJoinsTextsByLabel ==
    "mapping" \in fileCalls
        => /\ entityTextMapping /= MappingTypeError
           /\ { entityTextMapping[i][1] : i \in DOMAIN entityTextMapping } = LabelsOf(hocrFile)
           /\ Cardinality(LabelsOf(hocrFile)) = Len(entityTextMapping)
           /\ \A i \in DOMAIN entityTextMapping :
                 entityTextMapping[i][2]
                   = JoinWith(TextsWithLabel(hocrFile, entityTextMapping[i][1]), << " " >>)

\* C15: hasXEntityAnnotationInHocr returns true exactly when a word of the
\* file carries an x_entity annotation, which is exactly when the mapping of
\* getEntitiesTextMappingFromHocr for the file is non-empty; it returns false
\* for a file that convertTextToHocr produced.
C15_HasAnnotationIffAnnotatedWord ==
    /\ "has" \in fileCalls
          => /\ hasXEntity <=> AnnotatedWords(hocrFile) /= << >>
             /\ fileText /= Null => ~hasXEntity
    /\ fileCalls = { "has", "mapping" }
          => (hasXEntity <=> entityTextMapping /= << >>)

-----------------------------------------------------------------------------
(* Claims about parseHocrContentForEntities *)

\* a value and every value nested in it
RECURSIVE NodesIn(_)
NodesIn(v) ==
    { v } \cup UNION { NodesIn(v.members[i][2]) : i \in DOMAIN v.members }

IsTree(v) == v.kind \in { "object", "array" }

\* a node qualifies: its type is word, it has attributes with an x_entity
\* field, it carries an identifier and it has non-empty text
Qualifies(n) ==
    /\ n.kind = "object"
    /\ Get(n, KeyType) = JString(WordKind)
    /\ HasMember(Get(n, KeyAttributes), KeyXEntity)
    /\ HasMember(n, KeyId)
    /\ Get(n, KeyText).kind = "string"
    /\ Get(n, KeyText).str /= << >>

QualifyingNodes(v) == { n \in NodesIn(v) : Qualifies(n) }

\* the x_entity value split on whitespace and rejoined with "_"
EntityKeyOf(n) ==
    JoinWith(SplitWords(Get(Get(n, KeyAttributes), KeyXEntity).str), << "_" >>)

\* every x_entity field of the tree is a string and no node has a property
\* named hasOwnProperty
IsPlainTree(v) ==
    /\ IsTree(v)
    /\ \A n \in NodesIn(v) :
          /\ HasMember(n, KeyXEntity) => Get(n, KeyXEntity).kind = "string"
          /\ ~HasMember(n, KeyHasOwnProperty)

\* C16: the mapping returned has the texts of exactly the qualifying nodes of
\* the tree as keys, wherever the nodes sit, and the value of a text is the
\* entity key of a qualifying node with that text.
C16_MappingOfQualifyingNodes ==
    ("content" \in decodeCalls /\ IsPlainTree(jsonContent))
        => /\ { decoded[i][1] : i \in DOMAIN decoded }
                = { Get(n, KeyText).str : n \in QualifyingNodes(jsonContent) }
           /\ \A i \in DOMAIN decoded :
                 \E n \in QualifyingNodes(jsonContent) :
                    /\ Get(n, KeyText).str = decoded[i][1]
                    /\ EntityKeyOf(n) = decoded[i][2]

\* C17: for a tree, the mapping returned for the tree stringified equals the
\* mapping returned for the tree.
C17_StringOrTree ==
    ({ "content", "stringified" } \subseteq decodeCalls /\ IsTree(jsonContent))
        => decodedStringified = decoded

\* C17 witness: both calls have returned for a tree with two word nodes in a
\* children array, and the mapping has two entries.
C17_Witness ==
    /\ { "content", "stringified" } \subseteq decodeCalls
    /\ IsTree(jsonContent)
    /\ Len(Get(jsonContent, KeyChildren).members) = 2
    /\ decoded /= MappingTypeError
    /\ Len(decoded) = 2
    /\ decodedStringified = decoded

\* C18: for a string that is not JSON the call does not throw and returns the
\* empty mapping, and the substitution of the request leaves the text as it is.
C18_MalformedStringGivesEmptyMapping ==
    (jsonContent.kind = "string" /\ jsonContent.str \in MalformedStrings)
        => /\ "content" \in decodeCalls => decoded = << >>
           /\ "substituted" \in decodeCalls => decodeSubstituted = DecodeText

\* C18 witness: the request went on to its substitution after a string that
\* is not JSON, and its text is unchanged.
C18_Witness ==
    /\ jsonContent.kind = "string"
    /\ jsonContent.str \in MalformedStrings
    /\ jsonContent.str /= << >>
    /\ "substituted" \in decodeCalls
    /\ decoded = << >>
    /\ decodeSubstituted = DecodeText

\* C20: the decode and the substitution never throw: the call returns a
\* mapping for every JSON value, and the substitution loop returns a text for
\* every mapping.
C20_DecodeAndSubstitutionNeverThrow ==
    /\ "content" \in decodeCalls => decoded /= MappingTypeError
    /\ "substituted" \in decodeCalls => decodeSubstituted /= SyntaxError

-----------------------------------------------------------------------------
(* Claims about the worker's request handling *)

\* the text of a request: the text property of its JSON body, if there is one
HasText(req) ==
    req.body /= BodyNotJson /\ req.body.kind = "object" /\ HasMember(req.body, KeyText)

TextOf(req) == Get(req.body, KeyText)

\* the text is missing, empty, not a string, or longer than 10,000 characters
IsRejectedText(req) ==
    \/ ~HasText(req)
    \/ TextOf(req).kind /= "string"
    \/ TextOf(req).str = << >>
    \/ Len(TextOf(req).str) > 10000

\* C19: on both endpoints a request whose text is missing, empty, not a string
\* or longer than 10,000 characters is answered with status 400, and no
\* encoding, extraction call or language-model call was made for it; a text
\* of exactly 10,000 characters is not answered with 400.
C19_InvalidTextAnswered400 ==
    /\ IsRejectedText(request)
          => /\ encodings = 0 /\ extractionCalls = 0 /\ modelCalls = 0
             /\ reqPc = "done" => responseStatus = 400
    /\ (HasText(request) /\ TextOf(request).kind = "string"
          /\ Len(TextOf(request).str) = 10000)
          => responseStatus /= 400

-----------------------------------------------------------------------------
(* Claims about the order of the substitutions *)

\* the objects with the entries of m, inserted in any order
Reorderings(m) ==
    { [ i \in DOMAIN m |-> m[p[i]] ] :
        p \in { q \in [ DOMAIN m -> DOMAIN m ] :
                  \A i, j \in DOMAIN m : i /= j => q[i] /= q[j] } }

\* C21: the forward substitution does not depend on the insertion order of the
\* mapping: createPseudonymizedText and the loop of the /hocr handler give,
\* for a mapping with the same entries in another order, the same text.
C21_SubstitutionOrderIndependent ==
    /\ (subPc = "pseudonymized" /\ subMappings /= Undefined)
          => \A r \in Reorderings(subMappings) :
                createPseudonymizedText(subText, r) = pseudonymized
    /\ subPc = "hocr"
          => \A r \in Reorderings(subMappings) :
                hocrPseudonymizedText(subText, r) = hocrPseudonymized

-----------------------------------------------------------------------------
(* Claims about the traversal of parseHocrContentForEntities *)

\* the objects of a tree, each by its path from the root
RECURSIVE ObjectPaths(_, _)
ObjectPaths(v, path) ==
    IF v.kind \notin { "object", "array" } THEN {}
    ELSE (IF v.kind = "object" THEN { path } ELSE {})
           \cup UNION { ObjectPaths(v.members[i][2], path \o << v.members[i][1] >>) :
                          i \in DOMAIN v.members }

\* how many times traverseJson was entered for the value at the path
TimesVisited(visits, path) == Cardinality({ k \in DOMAIN visits : visits[k] = path })

\* C23: traverseJson visits every node of the tree exactly once: a node that
\* is reached through a children array is not visited again by the loop over
\* the object-valued properties.
C23_EveryNodeVisitedOnce ==
    ("content" \in decodeCalls /\ IsPlainTree(jsonContent))
        => \A path \in ObjectPaths(jsonContent, << >>) :
              TimesVisited(decodeVisits, path) = 1

\* the objects of a tree in document order: depth-first, an object before the
\* values of its properties, the properties in their order of appearance
RECURSIVE DocumentOrder(_)
DocumentOrder(v) ==
    IF v.kind \notin { "object", "array" } THEN << >>
    ELSE (IF v.kind = "object" THEN << v >> ELSE << >>)
           \o Flatten([ i \in DOMAIN v.members |-> DocumentOrder(v.members[i][2]) ])

\* the qualifying nodes of a tree in document order
QualifyingInOrder(v) == SelectSeq(DocumentOrder(v), Qualifies)

\* the value the object holds for the key is the given one
Holds(object, key, value) ==
    \E m \in DOMAIN object : object[m][1] = key /\ object[m][2] = value

\* C24: when two qualifying word nodes carry the same text with different
\* entity keys, the mapping returned holds for that text the entity key of the
\* node that comes last in document order.
C24_LastWriterWins ==
    ("content" \in decodeCalls /\ IsPlainTree(jsonContent))
        => LET order == QualifyingInOrder(jsonContent)
           IN  \A i, j \in DOMAIN order :
                  (/\ i < j
                   /\ Get(order[i], KeyText) = Get(order[j], KeyText)
                   /\ EntityKeyOf(order[i]) /= EntityKeyOf(order[j])
                   /\ \A k \in DOMAIN order :
                         k > j => Get(order[k], KeyText) /= Get(order[j], KeyText))
                     => Holds(decoded, Get(order[j], KeyText).str, EntityKeyOf(order[j]))

\* C25: within one request at most one call is made to the external service,
\* the extraction endpoint for /hocr and the chat-completion endpoint for
\* /improve; a response that is no success or is malformed ends the request
\* with status 500, and no second call is made.
C25_AtMostOneExternalCall ==
    /\ extractionCalls + modelCalls <= 1
    /\ request.path = PathHocr => modelCalls = 0
    /\ request.path = PathImprove => extractionCalls = 0
    /\ externalOutcome \in { "status", "format" }
          => /\ reqPc = "done"
             /\ responseStatus = 500
             /\ extractionCalls + modelCalls = 1

\* C25 witness: the extraction endpoint answered the one call of a /hocr
\* request with a status that is no success, and the request ended with 500.
C25_Witness ==
    /\ request.path = PathHocr
    /\ externalOutcome = "status"
    /\ extractionCalls = 1
    /\ reqPc = "done"
    /\ responseStatus = 500

-----------------------------------------------------------------------------
(* Claims about debounce *)

\* C27: func runs only when wait has elapsed with no further call since the
\* most recent call, it runs at most once for a burst of calls and once the
\* timer of the burst is gone it has run, and the arguments it is given are
\* those of the last call of the burst.
C27_DebounceRunsOncePerBurst ==
    /\ \A r \in DOMAIN dbRuns :
          /\ dbRuns[r].calls \in DOMAIN dbCalls
          /\ dbRuns[r].at - dbCalls[dbRuns[r].calls].at >= dbWait
          /\ dbRuns[r].args = dbCalls[dbRuns[r].calls].args
    /\ \A r, q \in DOMAIN dbRuns : r /= q => dbRuns[r].calls /= dbRuns[q].calls
    /\ Cardinality(dbTimers) <= 1
    /\ (dbCalls /= << >> /\ dbTimers = {})
          => (dbRuns /= << >> /\ dbRuns[Len(dbRuns)].calls = Len(dbCalls))

\* C27 witness: a burst of two calls with different arguments, the second
\* before the wait of the first had elapsed, and one run, with the arguments
\* of the second call.
C27_Witness ==
    /\ Len(dbCalls) = 2
    /\ dbCalls[1].args /= dbCalls[2].args
    /\ dbCalls[2].at - dbCalls[1].at < dbWait
    /\ Len(dbRuns) = 1
    /\ dbRuns[1].args = dbCalls[2].args
    /\ dbTimers = {}

-----------------------------------------------------------------------------
(* Claims about the text the forward substitution inserts *)

\* the text the loop of the /hocr handler holds when it reaches entry k
HocrTextBefore(text, entries, k) ==
    HocrSubstituteEntries(text, SubSeq(entries, 1, k - 1), 1)

\* entry k of the loop of the /hocr handler replaced an occurrence of its span
HocrEntryInserted(text, entries, k) ==
    LET before == HocrTextBefore(text, entries, k)
    IN  /\ before /= SyntaxError
        /\ IsValidPattern(entries[k][1])
        /\ \E i \in DOMAIN before : PatternMatchLen(before, i, entries[k][1]) > 0

\* the text createPseudonymizedText holds when it reaches entry k
PseudonymizedTextBefore(text, entries, k) ==
    PseudonymizeEntries(text, SubSeq(entries, 1, k - 1), 1)

\* entry k of createPseudonymizedText replaced an occurrence of its span
PseudonymizeEntryInserted(text, entries, k) ==
    /\ HasValue(entries[k][2])
    /\ IncludesIgnoreCase(PseudonymizedTextBefore(text, entries, k), entries[k][2])

\* C29: the forward substitution never alters text it has itself inserted:
\* when an entry of the mapping replaced an occurrence of its span, the entity
\* key (loop of the /hocr handler) or the placeholder (createPseudonymizedText)
\* it put there stands intact in the output, no later entry having matched
\* inside it.
C29_InsertedTextIntact ==
    /\ (subPc = "hocr" /\ hocrPseudonymized /= SyntaxError)
          => \A k \in DOMAIN subMappings :
                HocrEntryInserted(subText, subMappings, k)
                   => Includes(hocrPseudonymized, subMappings[k][2])
    /\ (subPc = "pseudonymized" /\ subMappings /= Undefined)
          => \A k \in DOMAIN subMappings :
                PseudonymizeEntryInserted(subText, subMappings, k)
                   => Includes(pseudonymized,
                               PlaceholderForPseudonymize(subMappings[k][1]))

-----------------------------------------------------------------------------
(* Claims about a /hocr request from the text to the pseudonymized text *)

HasCleanWord(token) == CleanWord(token) /= << >>

\* the tokens of the text the encoder emits a word region for, in emission
\* order: the token at k is the one of the word region with the id k
EmittedTokensOf(text) == SelectSeq(TokensOf(text), HasCleanWord)

\* the tokens of the text whose word region the extraction annotated
AnnotatedTokens ==
    { EmittedTokensOf(encText)[k] : k \in annotated \cap DOMAIN EmittedTokensOf(encText) }

\* the encoder removed a character from inside the token
IsStrippedInside(token) == ~Includes(token, CleanWord(token))

\* C30: for every successful /hocr request, every input token whose word
\* region the extraction annotated as an entity is absent from the returned
\* pseudonymizedText, tokens the encoder stripped characters from included.
C30_AnnotatedTokensAbsent ==
    (encPc = "answered" /\ hocrAnswer /= SyntaxError)
        => \A token \in AnnotatedTokens : ~Includes(hocrAnswer, token)

====
